---- MODULE Spec2Model ----
(***************************************************************************)
(* The oracle-v3 program: an asset registry (AssetRegistry, AssetConfig)   *)
(* and per-asset price storage (PriceData) written by four fixed updater   *)
(* keys, as a state machine over the program's accounts.                   *)
(*                                                                         *)
(* Every instruction handler is a pure operator from the accounts and the  *)
(* instruction's inputs to a result [err, st, ev]: the error code ("Ok"    *)
(* on success), the accounts after the instruction and the events it       *)
(* emitted.  The host runs one instruction as one unit of work: an Err     *)
(* return discards every write of the instruction, its events included.    *)
(*                                                                         *)
(* Not modelled: the PDA bump bytes and AssetConfig.added_at (written      *)
(* once, read by no handler), rent and the payer, the msg! log lines.  The *)
(* remaining accounts of batch_set_prices are taken to be passed writable. *)
(***************************************************************************)
EXTENDS Integers, Sequences, FiniteSets, TLC

(***************************************************************************)
(* Bounds of the model.                                                    *)
(***************************************************************************)
\* An instruction that emits events is taken only while the notification
\* log holds fewer than MaxLog events.
MaxLog == 1
\* batch_set_prices is driven with every batch of at most MaxBatch updates
\* (and with the long batches around the program's limit of 100).
MaxBatch == 2
\* Prices are drawn from -1..MaxPrice, client timestamps from 0..MaxTs, the
\* slot the clock reports from 0..MaxSlot.
MaxPrice == 2
MaxTs == 1
MaxSlot == 0

(***************************************************************************)
(* Program constants.                                                      *)
(***************************************************************************)
PARAM1_UPDATER == "CGLezzdUpYmxiq3g5xdXxry8SWqwQbSxFJsdqfM13ro9"
PARAM2_UPDATER == "FprJrTPJq9eKsVxEVhQCyRChEMaYzyTwcnK8aNfCae2D"
PARAM3_UPDATER == "7FZvQQE1VDq2fFSuBmCCxmo8tPNm9LfYqF9BMkbyp1by"
PARAM4_UPDATER == "55MyuYePgkwAExNqtdNY4zahSyiM3stjjRm3Ym36sTA8"
\* require!(updates.len() <= 100, ...)
MAX_BATCH_LEN == 100
\* symbol: [u8; 16]
SYMBOL_LEN == 16
\* asset_count: u32, held as two 16-bit halves [hi, lo] of value
\* hi * 65536 + lo (a u32 does not fit the checker's integers).
U16_MAX == 65535
U32(n) == [hi |-> n \div (U16_MAX + 1), lo |-> n % (U16_MAX + 1)]
U32_MAX == [hi |-> U16_MAX, lo |-> U16_MAX]

(***************************************************************************)
(* The inputs the model draws from.                                        *)
(***************************************************************************)
\* Two keys that are no updater's: the one the registry is set up with, and
\* a stranger's.
ADMIN == "AdminAuthority"
STRANGER == "Stranger"
Updaters == {PARAM1_UPDATER, PARAM2_UPDATER, PARAM3_UPDATER, PARAM4_UPDATER}
Keys == Updaters \cup {ADMIN, STRANGER}
\* The key initialize_registry is called with.
Authorities == {ADMIN}
Mints == {"MintA", "MintB"}
\* index: u8.  0 and 5 stand for the indices outside 1..4.
Indexes == 0 .. 5
\* price: i64, client_ts_ms: i64, and the slot Clock::get() reports.
Prices == -1 .. MaxPrice
Timestamps == 0 .. MaxTs
Slots == 0 .. MaxSlot

\* Option<T> as a sequence of at most one element.
None == << >>
Some(x) == << x >>

\* symbol.as_bytes(): "SOL", a symbol of exactly 16 bytes, one of 17.
SymSOL == << 83, 79, 76 >>
Sym16 == [i \in 1 .. SYMBOL_LEN |-> 65]
Sym17 == [i \in 1 .. SYMBOL_LEN + 1 |-> 66]
\* The (mint, symbol, decimals, pyth_feed_id) arguments register_asset is
\* called with.
RegisterArgs ==
    { [mint |-> "MintA", symbol |-> SymSOL, decimals |-> 6, pyth_feed_id |-> None],
      [mint |-> "MintB", symbol |-> Sym16, decimals |-> 9, pyth_feed_id |-> Some(7)],
      [mint |-> "MintA", symbol |-> Sym17, decimals |-> 6, pyth_feed_id |-> None],
      [mint |-> "MintB", symbol |-> Sym17, decimals |-> 9, pyth_feed_id |-> None] }

(***************************************************************************)
(* The accounts.  An account that was never created is the record of its   *)
(* type with exists = FALSE and every field zero.                          *)
(***************************************************************************)
\* Triplet::default()
TripletDefault ==
    [param1 |-> 0, param2 |-> 0, param3 |-> 0, param4 |-> 0,
     ts1 |-> 0, ts2 |-> 0, ts3 |-> 0, ts4 |-> 0]

NoRegistry == [exists |-> FALSE, authority |-> "", asset_count |-> U32(0)]

NoAssetConfig ==
    [exists |-> FALSE, mint |-> "", symbol |-> [i \in 1 .. SYMBOL_LEN |-> 0],
     decimals |-> 0, is_active |-> FALSE, pyth_feed_id |-> None]

NoPriceData ==
    [exists |-> FALSE, mint |-> "", prices |-> TripletDefault, last_update |-> 0]

\* The account addresses a caller can hand to an instruction: the derived
\* address of a mint's AssetConfig or of its PriceData.
Handles == [kind : {"AssetConfig", "PriceData"}, mint : Mints]
CfgHandle(m) == [kind |-> "AssetConfig", mint |-> m]
PdHandle(m) == [kind |-> "PriceData", mint |-> m]

VARIABLES
    registry,       \* the AssetRegistry account
    asset_config,   \* mint -> the AssetConfig account at its derived address
    price_data,     \* mint -> the PriceData account at its derived address
    log,            \* the PriceUpdated events emitted so far, oldest first
    last            \* the latest instruction: [op, err]

vars == << registry, asset_config, price_data, log, last >>

\* The accounts as one value, as the handlers take and return them.
Accounts == [registry |-> registry, asset_config |-> asset_config,
             price_data |-> price_data]

Fail(st, e) == [err |-> e, st |-> st, ev |-> << >>]
Done(st, ev) == [err |-> "Ok", st |-> st, ev |-> ev]

(***************************************************************************)
(* Account<'info, T>: loading an account of type T from a handle.          *)
(***************************************************************************)
\* The error of Account::<T>::try_from on handle h, "Ok" when it loads.
LoadErr(st, h, type) ==
    LET there == IF h.kind = "AssetConfig"
                 THEN st.asset_config[h.mint].exists
                 ELSE st.price_data[h.mint].exists
    IN  IF ~there THEN "AccountNotInitialized"
        ELSE IF h.kind # type THEN "AccountDiscriminatorMismatch"
        ELSE "Ok"

(***************************************************************************)
(* set_price.rs                                                            *)
(***************************************************************************)
\* The match on index that yields the expected signer.
expected_Index1Key2(index) ==
    CASE index = 1 -> [err |-> "Ok", key |-> PARAM2_UPDATER]
      [] index = 2 -> [err |-> "Ok", key |-> PARAM2_UPDATER]
      [] index = 3 -> [err |-> "Ok", key |-> PARAM3_UPDATER]
      [] index = 4 -> [err |-> "Ok", key |-> PARAM4_UPDATER]
      [] OTHER -> [err |-> "BadIndex", key |-> ""]

\* expected with the arm of the other indexes returning UnauthorizedForIndex.
expected_OtherUnauthorized(index) ==
    CASE index = 1 -> [err |-> "Ok", key |-> PARAM1_UPDATER]
      [] index = 2 -> [err |-> "Ok", key |-> PARAM2_UPDATER]
      [] index = 3 -> [err |-> "Ok", key |-> PARAM3_UPDATER]
      [] index = 4 -> [err |-> "Ok", key |-> PARAM4_UPDATER]
      [] OTHER -> [err |-> "UnauthorizedForIndex", key |-> ""]

expected(index) ==
    CASE index = 1 -> [err |-> "Ok", key |-> PARAM1_UPDATER]
      [] index = 2 -> [err |-> "Ok", key |-> PARAM2_UPDATER]
      [] index = 3 -> [err |-> "Ok", key |-> PARAM3_UPDATER]
      [] index = 4 -> [err |-> "Ok", key |-> PARAM4_UPDATER]
      [] OTHER -> [err |-> "BadIndex", key |-> ""]

\* SignerErr without the comparison of the keys.
SignerErr_NoKeyCheck(signer, index) == expected(index).err

\* "Validate signer matches index".
SignerErr(signer, index) ==
    LET e == expected(index)
    IN  IF e.err # "Ok" THEN e.err
        ELSE IF signer # e.key THEN "UnauthorizedForIndex"
        ELSE "Ok"

\* WriteSlot with the arm of index 2 storing its timestamp in ts1.
WriteSlot_Ts1ForIndex2(pd, index, price, client_ts_ms) ==
    LET t == pd.prices
        u == CASE index = 1 -> [t EXCEPT !.param1 = price, !.ts1 = client_ts_ms]
               [] index = 2 -> [t EXCEPT !.param2 = price, !.ts1 = client_ts_ms]
               [] index = 3 -> [t EXCEPT !.param3 = price, !.ts3 = client_ts_ms]
               [] index = 4 -> [t EXCEPT !.param4 = price, !.ts4 = client_ts_ms]
    IN  [pd EXCEPT !.prices = u, !.last_update = client_ts_ms]

\* WriteSlot adding the price to the slot in the place of storing it.
WriteSlot_Adds(pd, index, price, client_ts_ms) ==
    LET t == pd.prices
        u == CASE index = 1 -> [t EXCEPT !.param1 = @ + price, !.ts1 = client_ts_ms]
               [] index = 2 -> [t EXCEPT !.param2 = @ + price, !.ts2 = client_ts_ms]
               [] index = 3 -> [t EXCEPT !.param3 = @ + price, !.ts3 = client_ts_ms]
               [] index = 4 -> [t EXCEPT !.param4 = @ + price, !.ts4 = client_ts_ms]
    IN  [pd EXCEPT !.prices = u, !.last_update = client_ts_ms]

\* WriteSlot without the assignment of last_update.
WriteSlot_NoLastUpdate(pd, index, price, client_ts_ms) ==
    LET t == pd.prices
        u == CASE index = 1 -> [t EXCEPT !.param1 = price, !.ts1 = client_ts_ms]
               [] index = 2 -> [t EXCEPT !.param2 = price, !.ts2 = client_ts_ms]
               [] index = 3 -> [t EXCEPT !.param3 = price, !.ts3 = client_ts_ms]
               [] index = 4 -> [t EXCEPT !.param4 = price, !.ts4 = client_ts_ms]
    IN  [pd EXCEPT !.prices = u]

\* WriteSlot building the Triplet anew from its default.
WriteSlot_FromDefault(pd, index, price, client_ts_ms) ==
    LET t == TripletDefault
        u == CASE index = 1 -> [t EXCEPT !.param1 = price, !.ts1 = client_ts_ms]
               [] index = 2 -> [t EXCEPT !.param2 = price, !.ts2 = client_ts_ms]
               [] index = 3 -> [t EXCEPT !.param3 = price, !.ts3 = client_ts_ms]
               [] index = 4 -> [t EXCEPT !.param4 = price, !.ts4 = client_ts_ms]
    IN  [pd EXCEPT !.prices = u, !.last_update = client_ts_ms]

\* WriteSlot keeping the larger of last_update and the timestamp.
WriteSlot_LastUpdateMax(pd, index, price, client_ts_ms) ==
    LET t == pd.prices
        u == CASE index = 1 -> [t EXCEPT !.param1 = price, !.ts1 = client_ts_ms]
               [] index = 2 -> [t EXCEPT !.param2 = price, !.ts2 = client_ts_ms]
               [] index = 3 -> [t EXCEPT !.param3 = price, !.ts3 = client_ts_ms]
               [] index = 4 -> [t EXCEPT !.param4 = price, !.ts4 = client_ts_ms]
    IN  [pd EXCEPT !.prices = u,
                   !.last_update = IF @ > client_ts_ms THEN @ ELSE client_ts_ms]

\* WriteSlot behind a comparison of timestamps: an update older than the
\* slot is dropped.
WriteSlot_KeepsFresher(pd, index, price, client_ts_ms) ==
    LET t == pd.prices
        u == CASE index = 1 -> [t EXCEPT !.param1 = price, !.ts1 = client_ts_ms]
               [] index = 2 -> [t EXCEPT !.param2 = price, !.ts2 = client_ts_ms]
               [] index = 3 -> [t EXCEPT !.param3 = price, !.ts3 = client_ts_ms]
               [] index = 4 -> [t EXCEPT !.param4 = price, !.ts4 = client_ts_ms]
        ts == << t.ts1, t.ts2, t.ts3, t.ts4 >>[index]
    IN  IF client_ts_ms < ts THEN pd
        ELSE [pd EXCEPT !.prices = u, !.last_update = client_ts_ms]

\* "Update price based on index", then last_update.
WriteSlot(pd, index, price, client_ts_ms) ==
    LET t == pd.prices
        u == CASE index = 1 -> [t EXCEPT !.param1 = price, !.ts1 = client_ts_ms]
               [] index = 2 -> [t EXCEPT !.param2 = price, !.ts2 = client_ts_ms]
               [] index = 3 -> [t EXCEPT !.param3 = price, !.ts3 = client_ts_ms]
               [] index = 4 -> [t EXCEPT !.param4 = price, !.ts4 = client_ts_ms]
    IN  [pd EXCEPT !.prices = u, !.last_update = client_ts_ms]

PriceUpdated(mint, index, price, decimals, client_ts_ms, slot) ==
    [mint |-> mint, index |-> index, price |-> price, decimals |-> decimals,
     client_ts_ms |-> client_ts_ms, slot |-> slot]

\* #[derive(Accounts)] SetPrice: both accounts load, each at the address its
\* own stored mint derives.
SetPriceAccountsErr(st, cfg, pd) ==
    IF LoadErr(st, cfg, "AssetConfig") # "Ok" THEN LoadErr(st, cfg, "AssetConfig")
    ELSE LoadErr(st, pd, "PriceData")

\* set_price without the check of the price.
set_price_AnyPrice(st, cfg, pd, signer, index, price, client_ts_ms, slot) ==
    LET acc == SetPriceAccountsErr(st, cfg, pd)
        asset_cfg == st.asset_config[cfg.mint]
    IN  IF acc # "Ok" THEN Fail(st, acc)
        ELSE IF ~asset_cfg.is_active THEN Fail(st, "AssetInactive")
        ELSE IF SignerErr(signer, index) # "Ok" THEN Fail(st, SignerErr(signer, index))
        ELSE Done([st EXCEPT !.price_data[pd.mint] =
                        WriteSlot(@, index, price, client_ts_ms)],
                  << PriceUpdated(asset_cfg.mint, index, price,
                                  asset_cfg.decimals, client_ts_ms, slot) >>)

set_price(st, cfg, pd, signer, index, price, client_ts_ms, slot) ==
    LET acc == SetPriceAccountsErr(st, cfg, pd)
        asset_cfg == st.asset_config[cfg.mint]
    IN  IF acc # "Ok" THEN Fail(st, acc)
        ELSE IF ~asset_cfg.is_active THEN Fail(st, "AssetInactive")
        ELSE IF ~(price > 0) THEN Fail(st, "InvalidPrice")
        ELSE IF SignerErr(signer, index) # "Ok" THEN Fail(st, SignerErr(signer, index))
        ELSE Done([st EXCEPT !.price_data[pd.mint] =
                        WriteSlot(@, index, price, client_ts_ms)],
                  << PriceUpdated(asset_cfg.mint, index, price,
                                  asset_cfg.decimals, client_ts_ms, slot) >>)

\* The body of "for (i, update) in updates.iter().enumerate()" for update i:
\* w holds the accounts as written so far and the events emitted so far.
\* BatchStep without the comparison of price_data.mint with update.mint.
BatchStep_NoPriceDataMintCheck(w, i, index, updates, remaining_accounts, client_ts_ms, slot) ==
    LET update == updates[i]
        asset_config_info == remaining_accounts[2 * i - 1]
        price_data_info == remaining_accounts[2 * i]
        asset_cfg == w.st.asset_config[asset_config_info.mint]
        pd == w.st.price_data[price_data_info.mint]
    IN  IF ~(update.price > 0) THEN Fail(w.st, "InvalidPrice")
        ELSE IF LoadErr(w.st, asset_config_info, "AssetConfig") # "Ok"
             THEN Fail(w.st, LoadErr(w.st, asset_config_info, "AssetConfig"))
        ELSE IF LoadErr(w.st, price_data_info, "PriceData") # "Ok"
             THEN Fail(w.st, LoadErr(w.st, price_data_info, "PriceData"))
        ELSE IF asset_cfg.mint # update.mint THEN Fail(w.st, "AssetNotFound")
        ELSE IF ~asset_cfg.is_active THEN Fail(w.st, "AssetInactive")
        ELSE Done([w.st EXCEPT !.price_data[price_data_info.mint] =
                       WriteSlot(@, index, update.price, client_ts_ms)],
                  Append(w.ev, PriceUpdated(update.mint, index, update.price,
                                            asset_cfg.decimals, client_ts_ms, slot)))

\* BatchStep without the check of is_active.
BatchStep_NoActiveCheck(w, i, index, updates, remaining_accounts, client_ts_ms, slot) ==
    LET update == updates[i]
        asset_config_info == remaining_accounts[2 * i - 1]
        price_data_info == remaining_accounts[2 * i]
        asset_cfg == w.st.asset_config[asset_config_info.mint]
        pd == w.st.price_data[price_data_info.mint]
    IN  IF ~(update.price > 0) THEN Fail(w.st, "InvalidPrice")
        ELSE IF LoadErr(w.st, asset_config_info, "AssetConfig") # "Ok"
             THEN Fail(w.st, LoadErr(w.st, asset_config_info, "AssetConfig"))
        ELSE IF LoadErr(w.st, price_data_info, "PriceData") # "Ok"
             THEN Fail(w.st, LoadErr(w.st, price_data_info, "PriceData"))
        ELSE IF asset_cfg.mint # update.mint THEN Fail(w.st, "AssetNotFound")
        ELSE IF pd.mint # update.mint THEN Fail(w.st, "AssetNotFound")
        ELSE Done([w.st EXCEPT !.price_data[price_data_info.mint] =
                       WriteSlot(@, index, update.price, client_ts_ms)],
                  Append(w.ev, PriceUpdated(update.mint, index, update.price,
                                            asset_cfg.decimals, client_ts_ms, slot)))

\* BatchStep putting its event before the events of the earlier updates.
BatchStep_EventFirst(w, i, index, updates, remaining_accounts, client_ts_ms, slot) ==
    LET update == updates[i]
        asset_config_info == remaining_accounts[2 * i - 1]
        price_data_info == remaining_accounts[2 * i]
        asset_cfg == w.st.asset_config[asset_config_info.mint]
        pd == w.st.price_data[price_data_info.mint]
    IN  IF ~(update.price > 0) THEN Fail(w.st, "InvalidPrice")
        ELSE IF LoadErr(w.st, asset_config_info, "AssetConfig") # "Ok"
             THEN Fail(w.st, LoadErr(w.st, asset_config_info, "AssetConfig"))
        ELSE IF LoadErr(w.st, price_data_info, "PriceData") # "Ok"
             THEN Fail(w.st, LoadErr(w.st, price_data_info, "PriceData"))
        ELSE IF asset_cfg.mint # update.mint THEN Fail(w.st, "AssetNotFound")
        ELSE IF pd.mint # update.mint THEN Fail(w.st, "AssetNotFound")
        ELSE IF ~asset_cfg.is_active THEN Fail(w.st, "AssetInactive")
        ELSE Done([w.st EXCEPT !.price_data[price_data_info.mint] =
                       WriteSlot(@, index, update.price, client_ts_ms)],
                  << PriceUpdated(update.mint, index, update.price,
                                  asset_cfg.decimals, client_ts_ms, slot) >> \o w.ev)

\* BatchStep with the check of the price after the checks of the records.
BatchStep_PriceLast(w, i, index, updates, remaining_accounts, client_ts_ms, slot) ==
    LET update == updates[i]
        asset_config_info == remaining_accounts[2 * i - 1]
        price_data_info == remaining_accounts[2 * i]
        asset_cfg == w.st.asset_config[asset_config_info.mint]
        pd == w.st.price_data[price_data_info.mint]
    IN  IF LoadErr(w.st, asset_config_info, "AssetConfig") # "Ok"
        THEN Fail(w.st, LoadErr(w.st, asset_config_info, "AssetConfig"))
        ELSE IF LoadErr(w.st, price_data_info, "PriceData") # "Ok"
             THEN Fail(w.st, LoadErr(w.st, price_data_info, "PriceData"))
        ELSE IF asset_cfg.mint # update.mint THEN Fail(w.st, "AssetNotFound")
        ELSE IF pd.mint # update.mint THEN Fail(w.st, "AssetNotFound")
        ELSE IF ~asset_cfg.is_active THEN Fail(w.st, "AssetInactive")
        ELSE IF ~(update.price > 0) THEN Fail(w.st, "InvalidPrice")
        ELSE Done([w.st EXCEPT !.price_data[price_data_info.mint] =
                       WriteSlot(@, index, update.price, client_ts_ms)],
                  Append(w.ev, PriceUpdated(update.mint, index, update.price,
                                            asset_cfg.decimals, client_ts_ms, slot)))

BatchStep(w, i, index, updates, remaining_accounts, client_ts_ms, slot) ==
    LET update == updates[i]
        asset_config_info == remaining_accounts[2 * i - 1]
        price_data_info == remaining_accounts[2 * i]
        asset_cfg == w.st.asset_config[asset_config_info.mint]
        pd == w.st.price_data[price_data_info.mint]
    IN  IF ~(update.price > 0) THEN Fail(w.st, "InvalidPrice")
        ELSE IF LoadErr(w.st, asset_config_info, "AssetConfig") # "Ok"
             THEN Fail(w.st, LoadErr(w.st, asset_config_info, "AssetConfig"))
        ELSE IF LoadErr(w.st, price_data_info, "PriceData") # "Ok"
             THEN Fail(w.st, LoadErr(w.st, price_data_info, "PriceData"))
        ELSE IF asset_cfg.mint # update.mint THEN Fail(w.st, "AssetNotFound")
        ELSE IF pd.mint # update.mint THEN Fail(w.st, "AssetNotFound")
        ELSE IF ~asset_cfg.is_active THEN Fail(w.st, "AssetInactive")
        ELSE Done([w.st EXCEPT !.price_data[price_data_info.mint] =
                       WriteSlot(@, index, update.price, client_ts_ms)],
                  Append(w.ev, PriceUpdated(update.mint, index, update.price,
                                            asset_cfg.decimals, client_ts_ms, slot)))

\* BatchLoop with the writes of the updates before the rejected one kept.
RECURSIVE BatchLoop_KeepsWrites(_, _, _, _, _, _, _, _)
BatchLoop_KeepsWrites(st0, w, i, index, updates, remaining_accounts, client_ts_ms, slot) ==
    IF i > Len(updates) THEN w
    ELSE LET r == BatchStep(w, i, index, updates, remaining_accounts, client_ts_ms, slot)
         IN  IF r.err # "Ok" THEN [err |-> r.err, st |-> w.st, ev |-> w.ev]
             ELSE BatchLoop_KeepsWrites(st0, r, i + 1, index, updates,
                                        remaining_accounts, client_ts_ms, slot)

\* The loop from update i on.  An Err return leaves it with the accounts st0
\* the instruction began with and no event: the host discards the writes of
\* a failed instruction.
RECURSIVE BatchLoop(_, _, _, _, _, _, _, _)
BatchLoop(st0, w, i, index, updates, remaining_accounts, client_ts_ms, slot) ==
    IF i > Len(updates) THEN w
    ELSE LET r == BatchStep(w, i, index, updates, remaining_accounts, client_ts_ms, slot)
         IN  IF r.err # "Ok" THEN Fail(st0, r.err)
             ELSE BatchLoop(st0, r, i + 1, index, updates, remaining_accounts,
                            client_ts_ms, slot)

\* batch_set_prices with a batch of MAX_BATCH_LEN updates turned away.
batch_set_prices_Below(st, signer, index, updates, remaining_accounts, client_ts_ms, slot) ==
    IF SignerErr(signer, index) # "Ok" THEN Fail(st, SignerErr(signer, index))
    ELSE IF ~(Len(updates) < MAX_BATCH_LEN) THEN Fail(st, "TooManyAssets")
    ELSE IF ~(Len(updates) * 2 <= Len(remaining_accounts)) THEN Fail(st, "TooManyAssets")
    ELSE BatchLoop(st, Done(st, << >>), 1, index, updates, remaining_accounts,
                   client_ts_ms, slot)

batch_set_prices(st, signer, index, updates, remaining_accounts, client_ts_ms, slot) ==
    IF SignerErr(signer, index) # "Ok" THEN Fail(st, SignerErr(signer, index))
    ELSE IF ~(Len(updates) <= MAX_BATCH_LEN) THEN Fail(st, "TooManyAssets")
    ELSE IF ~(Len(updates) * 2 <= Len(remaining_accounts)) THEN Fail(st, "TooManyAssets")
    ELSE BatchLoop(st, Done(st, << >>), 1, index, updates, remaining_accounts,
                   client_ts_ms, slot)

(***************************************************************************)
(* admin.rs                                                                *)
(***************************************************************************)
\* #[account(init, ...)]: creating an account at an address that holds one
\* fails in the system program.
InitErr(there) == IF there THEN "AccountAlreadyInUse" ELSE "Ok"

\* initialize_registry on accounts declared init_if_needed.
initialize_registry_IfNeeded(st, authority) ==
    Done([st EXCEPT !.registry =
              [exists |-> TRUE, authority |-> authority, asset_count |-> U32(0)]],
         << >>)

initialize_registry(st, authority) ==
    IF InitErr(st.registry.exists) # "Ok" THEN Fail(st, InitErr(st.registry.exists))
    ELSE Done([st EXCEPT !.registry =
                   [exists |-> TRUE, authority |-> authority, asset_count |-> U32(0)]],
              << >>)

\* u32::wrapping_add(1) in the place of checked_add(1).
checked_add_1_Wrapping(n) ==
    IF n = U32_MAX THEN Some(U32(0))
    ELSE IF n.lo = U16_MAX THEN Some([hi |-> n.hi + 1, lo |-> 0])
    ELSE Some([n EXCEPT !.lo = @ + 1])

\* u32::checked_add(1): None on overflow.
checked_add_1(n) ==
    IF n = U32_MAX THEN None
    ELSE IF n.lo = U16_MAX THEN Some([hi |-> n.hi + 1, lo |-> 0])
    ELSE Some([n EXCEPT !.lo = @ + 1])

(***************************************************************************)
(* A String is a sequence of chars (Unicode scalar values); the handler    *)
(* sees it through its UTF-8 encoding: symbol.len() and symbol.as_bytes(). *)
(***************************************************************************)
\* The UTF-8 encoding of one char.
encode_utf8(c) ==
    IF c < 128 THEN << c >>
    ELSE IF c < 2048 THEN << 192 + (c \div 64), 128 + (c % 64) >>
    ELSE IF c < 65536
         THEN << 224 + (c \div 4096), 128 + ((c \div 64) % 64), 128 + (c % 64) >>
    ELSE << 240 + (c \div 262144), 128 + ((c \div 4096) % 64),
            128 + ((c \div 64) % 64), 128 + (c % 64) >>

\* symbol.as_bytes()
RECURSIVE as_bytes(_)
as_bytes(s) ==
    IF s = << >> THEN << >> ELSE encode_utf8(Head(s)) \o as_bytes(Tail(s))

\* U+FFFD, which from_utf8_lossy puts in the place of an invalid sequence.
REPLACEMENT_CHARACTER == 65533

\* The byte at i, or 0 past the end.
safe_get(bytes, i) == IF i <= Len(bytes) THEN bytes[i] ELSE 0

IsContinuation(b) == b \in 128 .. 191

\* The second byte a three-byte or four-byte lead admits.
SecondOf3(b, n) ==
    \/ b = 224 /\ n \in 160 .. 191
    \/ b \in 225 .. 236 /\ n \in 128 .. 191
    \/ b = 237 /\ n \in 128 .. 159
    \/ b \in 238 .. 239 /\ n \in 128 .. 191

SecondOf4(b, n) ==
    \/ b = 240 /\ n \in 144 .. 191
    \/ b \in 241 .. 243 /\ n \in 128 .. 191
    \/ b = 244 /\ n \in 128 .. 143

\* The char at the head of the bytes and the number of bytes it takes; an
\* invalid sequence gives U+FFFD and takes its longest valid part.
DecodeHead(bytes) ==
    LET b == bytes[1]
        n2 == safe_get(bytes, 2)
        n3 == safe_get(bytes, 3)
        n4 == safe_get(bytes, 4)
        bad(k) == [c |-> REPLACEMENT_CHARACTER, k |-> k]
    IN  IF b < 128 THEN [c |-> b, k |-> 1]
        ELSE IF b \in 194 .. 223
             THEN IF IsContinuation(n2)
                  THEN [c |-> (b - 192) * 64 + (n2 - 128), k |-> 2]
                  ELSE bad(1)
        ELSE IF b \in 224 .. 239
             THEN IF ~SecondOf3(b, n2) THEN bad(1)
                  ELSE IF ~IsContinuation(n3) THEN bad(2)
                  ELSE [c |-> (b - 224) * 4096 + (n2 - 128) * 64 + (n3 - 128),
                        k |-> 3]
        ELSE IF b \in 240 .. 244
             THEN IF ~SecondOf4(b, n2) THEN bad(1)
                  ELSE IF ~IsContinuation(n3) THEN bad(2)
                  ELSE IF ~IsContinuation(n4) THEN bad(3)
                  ELSE [c |-> (b - 240) * 262144 + (n2 - 128) * 4096
                                + (n3 - 128) * 64 + (n4 - 128),
                        k |-> 4]
        ELSE bad(1)

\* String::from_utf8_lossy(bytes)
RECURSIVE from_utf8_lossy(_)
from_utf8_lossy(bytes) ==
    IF bytes = << >> THEN << >>
    ELSE LET h == DecodeHead(bytes)
         IN  << h.c >> \o from_utf8_lossy(SubSeq(bytes, h.k + 1, Len(bytes)))

\* symbol_bytes: the symbol's bytes, then zeros up to 16.
SymbolBytes(symbol) ==
    [i \in 1 .. SYMBOL_LEN |-> IF i <= Len(symbol) THEN symbol[i] ELSE 0]

\* self.symbol.iter().position(|&b| b == 0).unwrap_or(16), counted from 0.
NullPos(symbol) ==
    IF \E i \in 1 .. SYMBOL_LEN : symbol[i] = 0
    THEN (CHOOSE i \in 1 .. SYMBOL_LEN :
              symbol[i] = 0 /\ \A j \in 1 .. i - 1 : symbol[j] # 0) - 1
    ELSE SYMBOL_LEN

\* symbol_as_string without the trimming: the 16 bytes decoded whole.
symbol_as_string_Untrimmed(cfg) == from_utf8_lossy(cfg.symbol)

\* AssetConfig::symbol_as_string
symbol_as_string(cfg) == from_utf8_lossy(SubSeq(cfg.symbol, 1, NullPos(cfg.symbol)))

\* #[derive(Accounts)] RegisterAsset: the registry loads, both records are
\* created at the addresses the mint derives.
RegisterAssetAccountsErr(st, mint) ==
    IF ~st.registry.exists THEN "AccountNotInitialized"
    ELSE IF InitErr(st.asset_config[mint].exists) # "Ok"
         THEN InitErr(st.asset_config[mint].exists)
    ELSE InitErr(st.price_data[mint].exists)

\* register_asset without the assignment of price_data.mint.
register_asset_NoPriceDataMint(st, authority, mint, symbol, decimals, pyth_feed_id) ==
    LET acc == RegisterAssetAccountsErr(st, mint)
        count == checked_add_1(st.registry.asset_count)
    IN  IF acc # "Ok" THEN Fail(st, acc)
        ELSE IF authority # st.registry.authority THEN Fail(st, "Unauthorized")
        ELSE IF ~(Len(symbol) <= SYMBOL_LEN) THEN Fail(st, "SymbolTooLong")
        ELSE IF count = None THEN Fail(st, "ProgramFailedToComplete")
        ELSE Done([st EXCEPT
                      !.asset_config[mint] =
                          [exists |-> TRUE, mint |-> mint,
                           symbol |-> SymbolBytes(symbol), decimals |-> decimals,
                           is_active |-> TRUE, pyth_feed_id |-> pyth_feed_id],
                      !.price_data[mint] =
                          [exists |-> TRUE, mint |-> "",
                           prices |-> TripletDefault, last_update |-> 0],
                      !.registry.asset_count = count[1]],
                  << >>)

\* register_asset storing is_active = false.
register_asset_Inactive(st, authority, mint, symbol, decimals, pyth_feed_id) ==
    LET acc == RegisterAssetAccountsErr(st, mint)
        count == checked_add_1(st.registry.asset_count)
    IN  IF acc # "Ok" THEN Fail(st, acc)
        ELSE IF authority # st.registry.authority THEN Fail(st, "Unauthorized")
        ELSE IF ~(Len(symbol) <= SYMBOL_LEN) THEN Fail(st, "SymbolTooLong")
        ELSE IF count = None THEN Fail(st, "ProgramFailedToComplete")
        ELSE Done([st EXCEPT
                      !.asset_config[mint] =
                          [exists |-> TRUE, mint |-> mint,
                           symbol |-> SymbolBytes(symbol), decimals |-> decimals,
                           is_active |-> FALSE, pyth_feed_id |-> pyth_feed_id],
                      !.price_data[mint] =
                          [exists |-> TRUE, mint |-> mint,
                           prices |-> TripletDefault, last_update |-> 0],
                      !.registry.asset_count = count[1]],
                  << >>)

register_asset(st, authority, mint, symbol, decimals, pyth_feed_id) ==
    LET acc == RegisterAssetAccountsErr(st, mint)
        count == checked_add_1(st.registry.asset_count)
    IN  IF acc # "Ok" THEN Fail(st, acc)
        ELSE IF authority # st.registry.authority THEN Fail(st, "Unauthorized")
        ELSE IF ~(Len(symbol) <= SYMBOL_LEN) THEN Fail(st, "SymbolTooLong")
        \* .unwrap() on None panics: the instruction aborts.
        ELSE IF count = None THEN Fail(st, "ProgramFailedToComplete")
        ELSE Done([st EXCEPT
                      !.asset_config[mint] =
                          [exists |-> TRUE, mint |-> mint,
                           symbol |-> SymbolBytes(symbol), decimals |-> decimals,
                           is_active |-> TRUE, pyth_feed_id |-> pyth_feed_id],
                      !.price_data[mint] =
                          [exists |-> TRUE, mint |-> mint,
                           prices |-> TripletDefault, last_update |-> 0],
                      !.registry.asset_count = count[1]],
                  << >>)

\* #[derive(Accounts)] UpdateAssetConfig: the registry and the AssetConfig load.
UpdateAssetConfigAccountsErr(st, cfg) ==
    IF ~st.registry.exists THEN "AccountNotInitialized"
    ELSE LoadErr(st, cfg, "AssetConfig")

\* SetActive flipping the flag in the place of storing it.
SetActive_Flip(st, authority, cfg, active) ==
    LET acc == UpdateAssetConfigAccountsErr(st, cfg)
    IN  IF acc # "Ok" THEN Fail(st, acc)
        ELSE IF authority # st.registry.authority THEN Fail(st, "Unauthorized")
        ELSE Done([st EXCEPT !.asset_config[cfg.mint].is_active = ~@], << >>)

\* SetActive without the comparison of the signer with registry.authority.
SetActive_NoAuthorityCheck(st, authority, cfg, active) ==
    LET acc == UpdateAssetConfigAccountsErr(st, cfg)
    IN  IF acc # "Ok" THEN Fail(st, acc)
        ELSE Done([st EXCEPT !.asset_config[cfg.mint].is_active = active], << >>)

\* deactivate_asset (active = FALSE) and activate_asset (active = TRUE): the
\* two handlers differ in the flag they store.
SetActive(st, authority, cfg, active) ==
    LET acc == UpdateAssetConfigAccountsErr(st, cfg)
    IN  IF acc # "Ok" THEN Fail(st, acc)
        ELSE IF authority # st.registry.authority THEN Fail(st, "Unauthorized")
        ELSE Done([st EXCEPT !.asset_config[cfg.mint].is_active = active], << >>)

deactivate_asset(st, authority, cfg) == SetActive(st, authority, cfg, FALSE)

activate_asset(st, authority, cfg) == SetActive(st, authority, cfg, TRUE)

(***************************************************************************)
(* The state machine.  An instruction is one step.  A failed instruction   *)
(* leaves the accounts and the log as they were, so whatever can follow it *)
(* could have been taken in its place: the model records a failure in      *)
(* `last` and explores no further from it.                                 *)
(***************************************************************************)
Init ==
    /\ registry = NoRegistry
    /\ asset_config = [m \in Mints |-> NoAssetConfig]
    /\ price_data = [m \in Mints |-> NoPriceData]
    /\ log = << >>
    /\ last = [op |-> "deploy", err |-> "Ok"]

\* The host commits the result r of instruction op.
Commit(op, r) ==
    /\ r.ev # << >> => Len(log) < MaxLog
    /\ registry' = r.st.registry
    /\ asset_config' = r.st.asset_config
    /\ price_data' = r.st.price_data
    /\ log' = log \o r.ev
    /\ last' = [op |-> op, err |-> r.err]

\* The batches batch_set_prices is driven with: every batch of at most
\* MaxBatch updates at a price from 0..MaxPrice and, for the n around
\* MAX_BATCH_LEN, n updates that the loop rejects at the first, so that a
\* long batch shows only whether it passed the size checks.
Updates == [mint : Mints, price : 0 .. MaxPrice]
ShortBatches == UNION {[1 .. n -> Updates] : n \in 0 .. MaxBatch}
LongBatch(n) == [k \in 1 .. n |-> [mint |-> "MintA", price |-> 0]]
LongBatches == {LongBatch(MAX_BATCH_LEN), LongBatch(MAX_BATCH_LEN + 1)}
Batches == ShortBatches \cup LongBatches

\* The named assets' own records, in the order of the updates.
OwnHandles(updates) ==
    [j \in 1 .. 2 * Len(updates) |->
        IF j % 2 = 1 THEN CfgHandle(updates[(j + 1) \div 2].mint)
                     ELSE PdHandle(updates[j \div 2].mint)]

\* The remaining accounts a batch is called with: the own handles, the own
\* handles without the last or with one more and, for a short batch, the
\* own handles with any one of them replaced by another handle.
HandleLists(updates) ==
    LET own == OwnHandles(updates)
    IN  {own, SubSeq(own, 1, Len(own) - 1), Append(own, CfgHandle("MintA"))}
        \cup IF Len(updates) > MaxBatch THEN {}
             ELSE {[own EXCEPT ![j] = h] : j \in DOMAIN own, h \in Handles}

\* A failed instruction leaves the accounts and the log of the state it was
\* tried in, and that state is explored itself: the state that records the
\* failure is not taken further.
InitializeRegistry ==
    /\ last.err = "Ok"
    /\ \E authority \in Authorities :
         Commit("initialize_registry", initialize_registry(Accounts, authority))

RegisterAsset ==
    /\ last.err = "Ok"
    /\ \E authority \in Keys, a \in RegisterArgs :
         Commit("register_asset",
                register_asset(Accounts, authority, a.mint, a.symbol, a.decimals,
                               a.pyth_feed_id))

DeactivateAsset ==
    /\ last.err = "Ok"
    /\ \E authority \in Keys, cfg \in Handles :
         Commit("deactivate_asset", deactivate_asset(Accounts, authority, cfg))

ActivateAsset ==
    /\ last.err = "Ok"
    /\ \E authority \in Keys, cfg \in Handles :
         Commit("activate_asset", activate_asset(Accounts, authority, cfg))

\* The inputs are drawn in the order set_price reads them; once it has
\* returned on the ones drawn so far, the rest are not varied.
SetPrice ==
    /\ last.err = "Ok"
    /\ \E cfg \in Handles, pd \in Handles :
         IF set_price(Accounts, cfg, pd, STRANGER, 0, 1, 0, 0).err # "BadIndex"
         THEN Commit("set_price", set_price(Accounts, cfg, pd, STRANGER, 0, 1, 0, 0))
         ELSE \E price \in Prices :
           IF ~(price > 0)
           THEN Commit("set_price",
                       set_price(Accounts, cfg, pd, STRANGER, 0, price, 0, 0))
           ELSE \E signer \in Keys, index \in Indexes :
             IF SignerErr(signer, index) # "Ok"
             THEN Commit("set_price",
                         set_price(Accounts, cfg, pd, signer, index, price, 0, 0))
             ELSE \E client_ts_ms \in Timestamps, slot \in Slots :
                    Commit("set_price",
                           set_price(Accounts, cfg, pd, signer, index, price,
                                     client_ts_ms, slot))

\* Likewise for batch_set_prices: the signer and the index first, then the
\* updates and the accounts; the signers, indices, timestamps and slots are
\* varied over the batches whose loop runs to its end.
BatchSetPrices ==
    /\ last.err = "Ok"
    /\ \/ \E signer \in Keys, index \in Indexes :
            /\ SignerErr(signer, index) # "Ok"
            /\ Commit("batch_set_prices",
                      batch_set_prices(Accounts, signer, index, << >>, << >>, 0, 0))
       \/ \E updates \in Batches :
            \E remaining_accounts \in HandleLists(updates) :
              IF batch_set_prices(Accounts, PARAM1_UPDATER, 1, updates,
                                  remaining_accounts, 0, 0).err # "Ok"
              THEN Commit("batch_set_prices",
                          batch_set_prices(Accounts, PARAM1_UPDATER, 1, updates,
                                           remaining_accounts, 0, 0))
              ELSE \E index \in 1 .. 4, client_ts_ms \in Timestamps, slot \in Slots :
                     Commit("batch_set_prices",
                            batch_set_prices(Accounts, expected(index).key, index,
                                             updates, remaining_accounts,
                                             client_ts_ms, slot))

Next ==
    \/ InitializeRegistry
    \/ RegisterAsset
    \/ DeactivateAsset
    \/ ActivateAsset
    \/ SetPrice
    \/ BatchSetPrices

Spec == Init /\ [][Next]_vars

(***************************************************************************)
(* The price writes, from any PriceData that earlier writes can have left. *)
(* Both assets are registered by the handlers; the PriceData of MintA      *)
(* holds in each slot either the zeros of registration or a written price  *)
(* and timestamp, and as last_update the timestamp of one of the writes.   *)
(***************************************************************************)
BothRegistered ==
    LET a == RegisterArgs
        none == [registry |-> NoRegistry,
                 asset_config |-> [m \in Mints |-> NoAssetConfig],
                 price_data |-> [m \in Mints |-> NoPriceData]]
        s0 == initialize_registry(none, ADMIN).st
        s1 == register_asset(s0, ADMIN, "MintA", SymSOL, 6, None).st
    IN  register_asset(s1, ADMIN, "MintB", Sym16, 9, Some(7)).st

\* What a slot holds at the start: the zeros of registration, the smallest
\* price at timestamp 0, or the largest price at the largest timestamp.
SlotValues == {<< 0, 0 >>, << 1, 0 >>, << MaxPrice, MaxTs >>}

TripletOf(s) ==
    [param1 |-> s[1][1], param2 |-> s[2][1], param3 |-> s[3][1], param4 |-> s[4][1],
     ts1 |-> s[1][2], ts2 |-> s[2][2], ts3 |-> s[3][2], ts4 |-> s[4][2]]

\* The timestamps last_update can hold next to the slots s: 0 with no write,
\* else the timestamp of a written slot.
LastUpdates(s) ==
    IF \A i \in 1 .. 4 : s[i] = << 0, 0 >> THEN {0}
    ELSE {s[i][2] : i \in {j \in 1 .. 4 : s[j] # << 0, 0 >>}}

InitWrites ==
    \E s \in [1 .. 4 -> SlotValues] :
      \E lu \in LastUpdates(s) :
        /\ registry = BothRegistered.registry
        /\ asset_config = BothRegistered.asset_config
        /\ price_data = [BothRegistered.price_data EXCEPT
                            !["MintA"].prices = TripletOf(s),
                            !["MintA"].last_update = lu]
        /\ log = << >>
        /\ last = [op |-> IF lu = 0 /\ TripletOf(s) = TripletDefault
                          THEN "register_asset" ELSE "set_price",
                   err |-> "Ok"]

NextWrites == SetPrice

SpecWrites == InitWrites /\ [][NextWrites]_vars

(***************************************************************************)
(* The vocabulary of the properties.                                       *)
(***************************************************************************)
\* The key bound to slot i.
UpdaterOf(i) == << PARAM1_UPDATER, PARAM2_UPDATER, PARAM3_UPDATER, PARAM4_UPDATER >>[i]

\* The (price_i, timestamp_i) pair of a PriceData record.
SlotOf(pd, i) ==
    << << pd.prices.param1, pd.prices.ts1 >>, << pd.prices.param2, pd.prices.ts2 >>,
       << pd.prices.param3, pd.prices.ts3 >>, << pd.prices.param4, pd.prices.ts4 >> >>[i]

Registered(m) == asset_config[m].exists
Active(m) == asset_config[m].exists /\ asset_config[m].is_active

\* The state records a successful instruction.  A state that records a failed
\* one has the accounts and the log of the state the instruction was tried
\* in, so a property of the handlers on every input is evaluated there.
AtRest == last.err = "Ok"

\* setPrice(m, ...): set_price on the asset's own two records.
SetPriceOn(m, signer, index, price, client_ts_ms, slot) ==
    set_price(Accounts, CfgHandle(m), PdHandle(m), signer, index, price,
              client_ts_ms, slot)

(***************************************************************************)
(* C3.  For a registered asset and an index i in 1..4, setPrice succeeds   *)
(* if and only if the signer is the key bound to i, the asset is active    *)
(* and price > 0; from a succeeding call, changing one precondition gives  *)
(* the failure of that precondition: another signer UnauthorizedForIndex,  *)
(* an inactive asset AssetInactive, a price <= 0 InvalidPrice.             *)
(***************************************************************************)
C3_SetPriceSucceedsIff ==
    AtRest =>
    \A m \in Mints, i \in 1 .. 4, signer \in Keys, price \in Prices :
      \A client_ts_ms \in Timestamps, slot \in Slots :
        LET err == SetPriceOn(m, signer, i, price, client_ts_ms, slot).err
            auth == signer = UpdaterOf(i)
        IN  Registered(m) =>
              /\ err = "Ok" <=> (auth /\ Active(m) /\ price > 0)
              /\ (~auth /\ Active(m) /\ price > 0) => err = "UnauthorizedForIndex"
              /\ (auth /\ ~Active(m) /\ price > 0) => err = "AssetInactive"
              /\ (auth /\ Active(m) /\ ~(price > 0)) => err = "InvalidPrice"

\* A setPrice has succeeded on an asset while the other asset is inactive.
C3_Witness ==
    /\ last = [op |-> "set_price", err |-> "Ok"]
    /\ \E m \in Mints : Registered(m) /\ ~Active(m)
    /\ \E m \in Mints : Active(m) /\ price_data[m].last_update > 0

(***************************************************************************)
(* C4.  A successful setPrice(asset, i, price, ts) sets price_i = price,   *)
(* timestamp_i = ts and lastUpdate = ts on the PriceData it is handed (the *)
(* asset's own, when called on the asset) and leaves unchanged the other   *)
(* three slots of that record, the PriceData of every other asset, every   *)
(* AssetConfig and the AssetRegistry; on a PriceData as registration left  *)
(* it, a setPrice on slot 1 leaves every other slot zero.                  *)
(***************************************************************************)
C4_SetPriceFrame ==
    AtRest =>
    \A cfg \in Handles, pd \in Handles, signer \in Keys, i \in Indexes :
      \A price \in Prices, client_ts_ms \in Timestamps, slot \in Slots :
        LET r == set_price(Accounts, cfg, pd, signer, i, price, client_ts_ms, slot)
            old == price_data[pd.mint]
            new == r.st.price_data[pd.mint]
        IN  r.err = "Ok" =>
              /\ SlotOf(new, i) = << price, client_ts_ms >>
              /\ new.last_update = client_ts_ms
              /\ \A j \in (1 .. 4) \ {i} : SlotOf(new, j) = SlotOf(old, j)
              /\ new.exists = old.exists /\ new.mint = old.mint
              /\ \A m \in Mints \ {pd.mint} : r.st.price_data[m] = price_data[m]
              /\ r.st.asset_config = asset_config
              /\ r.st.registry = registry
              /\ (old.prices = TripletDefault /\ i = 1) =>
                    new.prices = [TripletDefault EXCEPT !.param1 = price,
                                                        !.ts1 = client_ts_ms]

\* After both registrations and one setPrice on slot 1 of one asset: its
\* slot 1 and lastUpdate are set, every other slot of either asset is zero.
C4_Witness ==
    /\ last = [op |-> "set_price", err |-> "Ok"]
    /\ registry.asset_count = U32(2)
    /\ \E m \in Mints :
         /\ price_data[m].prices = [TripletDefault EXCEPT !.param1 = 2, !.ts1 = 1]
         /\ price_data[m].last_update = 1
         /\ \A n \in Mints \ {m} :
              Active(n) /\ price_data[n].prices = TripletDefault

\* The batch calls the claims about the signer and the index range over:
\* every signer and index, every short batch, with the named assets' own
\* records alone or followed by one more.
SignerBatchHandles(updates) ==
    {OwnHandles(updates), Append(OwnHandles(updates), CfgHandle("MintA"))}

\* No (price_i, timestamp_i) pair differs between the accounts and st,
\* except pairs of an index in only.
SlotsKept(st, only) ==
    \/ st.price_data = price_data
    \/ \A m \in Mints, j \in 1 .. 4 :
         SlotOf(st.price_data[m], j) # SlotOf(price_data[m], j) => j \in only

\* The outcome r of a set_price or batch_set_prices by signer for index
\* changes a pair only if it is a success, the pair is of that index and
\* the signer is the key of that index.
SlotsOwned(r, signer, index) ==
    \/ r.st.price_data = price_data
    \/ /\ r.err = "Ok"
       /\ index \in 1 .. 4
       /\ signer = UpdaterOf(index)
       /\ SlotsKept(r.st, {index})

\* The outcome r is the failure e and leaves every record as it was.
Rejected(r, e) == r.err = e /\ r.st = Accounts /\ r.ev = << >>

\* The instructions of the administrator write no pair.
AdminKeepsSlots ==
    /\ \A authority \in Keys :
         SlotsKept(initialize_registry(Accounts, authority).st, {})
    /\ \A authority \in Keys, a \in RegisterArgs :
         SlotsKept(register_asset(Accounts, authority, a.mint, a.symbol,
                                  a.decimals, a.pyth_feed_id).st, {})
    /\ \A authority \in Keys, cfg \in Handles :
         /\ SlotsKept(deactivate_asset(Accounts, authority, cfg).st, {})
         /\ SlotsKept(activate_asset(Accounts, authority, cfg).st, {})

\* batch_set_prices writes only the pairs of the signer's index, and with an
\* index in 1..4 and another signer than its key it fails with
\* UnauthorizedForIndex and changes no record.
BatchSlotsOwned ==
    \A signer \in Keys, index \in Indexes, updates \in ShortBatches :
      \A remaining_accounts \in SignerBatchHandles(updates) :
          LET r == batch_set_prices(Accounts, signer, index, updates,
                                    remaining_accounts, MaxTs, 0)
          IN  /\ SlotsOwned(r, signer, index)
              /\ (index \in 1 .. 4 /\ signer # UpdaterOf(index))
                    => Rejected(r, "UnauthorizedForIndex")

(***************************************************************************)
(* C1 as stated.  A (price_i, timestamp_i) pair changes only during a      *)
(* setPrice or batchSetPrices with sourceIndex i signed by the key bound   *)
(* to slot i, and an invocation with sourceIndex in 1..4 whose signer is   *)
(* not the key bound to that index fails with UnauthorizedForIndex and     *)
(* changes no record.  Read on the invocations of a registered asset's     *)
(* own records; set_price reports an inactive asset and a price that is    *)
(* not positive before it looks at the signer, so this fails.              *)
(***************************************************************************)
C1_WrongSignerUnauthorized ==
    AtRest =>
    /\ AdminKeepsSlots
    /\ BatchSlotsOwned
    /\ \A m \in Mints, signer \in Keys, index \in Indexes :
         \A price \in Prices :
           LET r == SetPriceOn(m, signer, index, price, MaxTs, 0)
           IN  /\ SlotsOwned(r, signer, index)
               /\ (Registered(m) /\ index \in 1 .. 4 /\ signer # UpdaterOf(index))
                     => Rejected(r, "UnauthorizedForIndex")

(***************************************************************************)
(* C1, amended.  A (price_i, timestamp_i) pair changes only during a       *)
(* successful setPrice or batchSetPrices with sourceIndex i signed by the  *)
(* key bound to slot i.  An invocation with sourceIndex in 1..4 whose      *)
(* signer is not the key bound to that index fails and changes no record;  *)
(* the error is UnauthorizedForIndex for batchSetPrices, and for setPrice  *)
(* on loaded records whose AssetConfig is active with price > 0, where     *)
(* setPrice otherwise reports AssetInactive or InvalidPrice first.         *)
(***************************************************************************)
C1_WrongSignerFails ==
    AtRest =>
    /\ AdminKeepsSlots
    /\ BatchSlotsOwned
    /\ \A cfg \in Handles, pd \in Handles, signer \in Keys, index \in Indexes :
         \A price \in Prices :
           LET r == set_price(Accounts, cfg, pd, signer, index, price, MaxTs, 0)
               loaded == SetPriceAccountsErr(Accounts, cfg, pd) = "Ok"
               active == asset_config[cfg.mint].is_active
           IN  /\ SlotsOwned(r, signer, index)
               /\ (index \in 1 .. 4 /\ signer # UpdaterOf(index)) =>
                    /\ r.err # "Ok" /\ r.st = Accounts /\ r.ev = << >>
                    /\ (loaded /\ active /\ price > 0) => r.err = "UnauthorizedForIndex"
                    /\ (loaded /\ ~active) => r.err = "AssetInactive"
                    /\ (loaded /\ active /\ ~(price > 0)) => r.err = "InvalidPrice"

\* A price was written by its key, and a set_price under another signer has
\* just been rejected as unauthorized.
C1_Witness ==
    /\ last = [op |-> "set_price", err |-> "UnauthorizedForIndex"]
    /\ \E m \in Mints : Active(m) /\ price_data[m].last_update > 0

(***************************************************************************)
(* C2 as stated.  While an asset is inactive, no setPrice or               *)
(* batchSetPrices changes that asset's PriceData, for every signer, every  *)
(* sourceIndex and every choice of AssetConfig / PriceData handles.        *)
(* The accounts of set_price do not tie the PriceData it writes to the     *)
(* AssetConfig whose is_active it reads, so this fails.                    *)
(***************************************************************************)
C2_InactiveNeverWritten ==
    AtRest =>
    \A m \in Mints :
      (Registered(m) /\ ~Active(m)) =>
        /\ \A cfg \in Handles, pd \in Handles, signer \in Keys, index \in Indexes :
             \A price \in Prices, client_ts_ms \in Timestamps, slot \in Slots :
               set_price(Accounts, cfg, pd, signer, index, price, client_ts_ms,
                         slot).st.price_data[m] = price_data[m]
        /\ \A signer \in Updaters, index \in 1 .. 4, updates \in ShortBatches :
             \A remaining_accounts \in HandleLists(updates) :
               \A client_ts_ms \in Timestamps, slot \in Slots :
                 batch_set_prices(Accounts, signer, index, updates,
                                  remaining_accounts, client_ts_ms,
                                  slot).st.price_data[m] = price_data[m]

\* What is wrong with update k of a batch and the two handles at its
\* positions, as the set of the errors it can be rejected with.
Faults(updates, remaining_accounts, k) ==
    LET update == updates[k]
        c == remaining_accounts[2 * k - 1]
        p == remaining_accounts[2 * k]
        cOk == c.kind = "AssetConfig" /\ asset_config[c.mint].exists
        pOk == p.kind = "PriceData" /\ price_data[p.mint].exists
    IN  (IF update.price <= 0 THEN {"InvalidPrice"} ELSE {})
        \cup ({LoadErr(Accounts, c, "AssetConfig"), LoadErr(Accounts, p, "PriceData")}
              \ {"Ok"})
        \cup (IF cOk /\ pOk /\ (c.mint # update.mint \/ p.mint # update.mint)
              THEN {"AssetNotFound"} ELSE {})
        \cup (IF cOk /\ ~asset_config[c.mint].is_active THEN {"AssetInactive"} ELSE {})

\* The updates of a batch that are rejected, and the first of them.
Rejects(updates, remaining_accounts) ==
    {k \in 1 .. Len(updates) : Faults(updates, remaining_accounts, k) # {}}
FirstOf(ks) == CHOOSE k \in ks : \A j \in ks : k <= j

\* The short batches with two handles or more for every update.
PairedHandleLists(updates) ==
    {h \in HandleLists(updates) : Len(h) >= 2 * Len(updates)}

(***************************************************************************)
(* C5.  batchSetPrices is all-or-nothing: when an update of the batch      *)
(* fails its validation (records that do not load, identity mismatch,      *)
(* inactive asset, price <= 0), the invocation fails with an error of the  *)
(* first such update, every record, the PriceData of the updates before it *)
(* included, is as before the invocation, and it emits no notification.    *)
(***************************************************************************)
C5_BatchAllOrNothing ==
    AtRest =>
    \A updates \in ShortBatches :
      \A remaining_accounts \in PairedHandleLists(updates) :
        LET bad == Rejects(updates, remaining_accounts)
        IN  bad # {} =>
              \A index \in 1 .. 4 :
                LET r == batch_set_prices(Accounts, UpdaterOf(index), index, updates,
                                          remaining_accounts, MaxTs, 0)
                IN  /\ r.err \in Faults(updates, remaining_accounts, FirstOf(bad))
                    /\ r.st = Accounts
                    /\ r.ev = << >>

\* A batch has just failed on an inactive asset, and it is one of two
\* updates whose first, on its own, writes the price of an active asset.
C5_Witness ==
    /\ last = [op |-> "batch_set_prices", err |-> "AssetInactive"]
    /\ \E a \in Mints, b \in Mints :
         LET one == << [mint |-> a, price |-> MaxPrice] >>
             two == Append(one, [mint |-> b, price |-> MaxPrice])
         IN  /\ Active(a) /\ Registered(b) /\ ~Active(b)
             /\ batch_set_prices(Accounts, PARAM1_UPDATER, 1, one, OwnHandles(one),
                                 MaxTs, 0).st.price_data[a] # price_data[a]
             /\ batch_set_prices(Accounts, PARAM1_UPDATER, 1, two, OwnHandles(two),
                                 MaxTs, 0).err = "AssetInactive"

\* setPrice(updates[k].mint, index, updates[k].price, ts) by signer for
\* k = 1 .. Len(updates) in input order, from the outcome w on: the records
\* they leave and the events they emit, or the first failure.
RECURSIVE SetPriceSeq(_, _, _, _, _, _)
SetPriceSeq(w, k, signer, index, updates, client_ts_ms) ==
    IF k > Len(updates) THEN w
    ELSE LET r == set_price(w.st, CfgHandle(updates[k].mint), PdHandle(updates[k].mint),
                            signer, index, updates[k].price, client_ts_ms, 0)
         IN  IF r.err # "Ok" THEN r
             ELSE SetPriceSeq(Done(r.st, w.ev \o r.ev), k + 1, signer, index,
                              updates, client_ts_ms)

\* Every one of those setPrice calls would succeed.
SetPriceEach(signer, index, updates, client_ts_ms) ==
    \A k \in 1 .. Len(updates) :
        SetPriceOn(updates[k].mint, signer, index, updates[k].price,
                   client_ts_ms, 0).err = "Ok"

\* A batch of one update more than batch_set_prices takes, all of them valid
\* for an active MintA.
OverlongBatch == [k \in 1 .. MAX_BATCH_LEN + 1 |-> [mint |-> "MintA", price |-> 1]]

\* A successful batch leaves the records and emits the events of the
\* sequence of setPrice calls.
BatchAsSetPrices(b, signer, index, updates, client_ts_ms) ==
    b.err = "Ok" =>
        LET s == SetPriceSeq(Done(Accounts, << >>), 1, signer, index, updates,
                             client_ts_ms)
        IN  s.err = "Ok" /\ b.st = s.st /\ b.ev = s.ev

(***************************************************************************)
(* C6 as stated.  A successful batchSetPrices(i, updates, ts) by signer S  *)
(* leaves every record in the same final state and emits the same          *)
(* notifications in the same order as setPrice(updates[k].assetIdentity,   *)
(* i, updates[k].price, ts) by S for k in input order, and the batch       *)
(* succeeds exactly when every one of those setPrice calls would succeed.  *)
(* An empty batch by a signer that is not the key of i, and a batch of 101 *)
(* valid updates, fail although no setPrice call would, so this fails.     *)
(***************************************************************************)
C6_BatchSucceedsIffEachSetPrice ==
    AtRest =>
    \A signer \in Keys, index \in Indexes :
      \A updates \in ShortBatches \cup {OverlongBatch}, client_ts_ms \in Timestamps :
        LET b == batch_set_prices(Accounts, signer, index, updates,
                                  OwnHandles(updates), client_ts_ms, 0)
        IN  /\ (Len(updates) <= MaxBatch) =>
                  BatchAsSetPrices(b, signer, index, updates, client_ts_ms)
            /\ b.err = "Ok" <=> SetPriceEach(signer, index, updates, client_ts_ms)

(***************************************************************************)
(* C6, amended.  A successful batchSetPrices(i, updates, ts) by signer S   *)
(* leaves every record in the same final state and emits the same          *)
(* notifications in the same order as the setPrice calls for its updates   *)
(* in input order (the last update of an asset named twice wins).  A batch *)
(* of 1 to 100 updates succeeds exactly when every one of those setPrice   *)
(* calls would succeed; an empty batch succeeds exactly when S is the key  *)
(* bound to i in 1..4; a batch of more than 100 updates fails.             *)
(***************************************************************************)
C6_BatchRefinesSetPrices ==
    AtRest =>
    \A signer \in Keys, index \in Indexes :
      \A updates \in ShortBatches \cup {OverlongBatch}, client_ts_ms \in Timestamps :
        LET b == batch_set_prices(Accounts, signer, index, updates,
                                  OwnHandles(updates), client_ts_ms, 0)
            n == Len(updates)
        IN  /\ (n <= MaxBatch) =>
                  BatchAsSetPrices(b, signer, index, updates, client_ts_ms)
            /\ (0 < n /\ n <= MAX_BATCH_LEN) =>
                  (b.err = "Ok" <=> SetPriceEach(signer, index, updates, client_ts_ms))
            /\ (n = 0) =>
                  (b.err = "Ok" <=> (index \in 1 .. 4 /\ signer = UpdaterOf(index)))
            /\ (n > MAX_BATCH_LEN) =>
                  /\ b.err # "Ok" /\ b.st = Accounts /\ b.ev = << >>
                  /\ (index \in 1 .. 4 /\ signer = UpdaterOf(index))
                        => b.err = "TooManyAssets"

\* A batch that names one asset twice with different prices has succeeded:
\* two events in input order, and the asset holds the price of the second.
C6_Witness ==
    /\ last = [op |-> "batch_set_prices", err |-> "Ok"]
    /\ Len(log) = 2
    /\ log[1].mint = log[2].mint
    /\ log[1].price # log[2].price
    /\ log[1].index = log[2].index
    /\ SlotOf(price_data[log[2].mint], log[2].index)[1] = log[2].price

(***************************************************************************)
(* C7 as stated.  batchSetPrices by an authorized signer fails with        *)
(* TooManyAssets and changes no record whenever len(updates) > 100 or the  *)
(* number of handles is not exactly 2 * len(updates).  batch_set_prices    *)
(* asks for 2 * len(updates) handles or more, so this fails.               *)
(***************************************************************************)
C7_ExactlyTwoHandlesPerUpdate ==
    AtRest =>
    \A updates \in Batches :
      \A remaining_accounts \in HandleLists(updates), index \in 1 .. 4 :
        LET r == batch_set_prices(Accounts, UpdaterOf(index), index, updates,
                                  remaining_accounts, MaxTs, 0)
        IN  (\/ Len(updates) > MAX_BATCH_LEN
             \/ Len(remaining_accounts) # 2 * Len(updates))
              => Rejected(r, "TooManyAssets")

(***************************************************************************)
(* C7, amended.  batchSetPrices by an authorized signer fails with         *)
(* TooManyAssets and changes no record whenever len(updates) > 100 or      *)
(* fewer than 2 * len(updates) handles are supplied; with at most 100      *)
(* updates and 2 * len(updates) handles or more it does not fail with      *)
(* TooManyAssets, and the handles past the first 2 * len(updates) make no  *)
(* difference to its outcome.                                              *)
(***************************************************************************)
C7_TooManyAssets ==
    AtRest =>
    \A updates \in Batches :
      \A remaining_accounts \in HandleLists(updates), index \in 1 .. 4 :
        LET r == batch_set_prices(Accounts, UpdaterOf(index), index, updates,
                                  remaining_accounts, MaxTs, 0)
            n == Len(updates)
        IN  IF n > MAX_BATCH_LEN \/ Len(remaining_accounts) < 2 * n
            THEN Rejected(r, "TooManyAssets")
            ELSE /\ r.err # "TooManyAssets"
                 /\ Len(remaining_accounts) > 2 * n =>
                      r = batch_set_prices(Accounts, UpdaterOf(index), index, updates,
                                           SubSeq(remaining_accounts, 1, 2 * n),
                                           MaxTs, 0)

\* A batch has just failed with TooManyAssets, where the key of slot 1 is
\* turned away with one handle for an update of an active asset and with
\* 101 updates and their 202 handles, and passes with a handle to spare.
C7_Witness ==
    /\ last = [op |-> "batch_set_prices", err |-> "TooManyAssets"]
    /\ \E m \in Mints :
         LET one == << [mint |-> m, price |-> MaxPrice] >>
         IN  /\ Active(m)
             /\ batch_set_prices(Accounts, PARAM1_UPDATER, 1, one, << CfgHandle(m) >>,
                                 MaxTs, 0).err = "TooManyAssets"
             /\ batch_set_prices(Accounts, PARAM1_UPDATER, 1, one,
                                 Append(OwnHandles(one), CfgHandle("MintA")),
                                 MaxTs, 0).err = "Ok"
    /\ batch_set_prices(Accounts, PARAM1_UPDATER, 1, OverlongBatch,
                        OwnHandles(OverlongBatch), MaxTs, 0).err = "TooManyAssets"

\* The two handles of update k load as an AssetConfig and a PriceData, and
\* one of them stores another identity than the update names.
Mismatched(updates, remaining_accounts, k) ==
    LET c == remaining_accounts[2 * k - 1]
        p == remaining_accounts[2 * k]
    IN  /\ LoadErr(Accounts, c, "AssetConfig") = "Ok"
        /\ LoadErr(Accounts, p, "PriceData") = "Ok"
        /\ \/ asset_config[c.mint].mint # updates[k].mint
           \/ price_data[p.mint].mint # updates[k].mint

\* The PriceData of m is among the records an update of the batch may
\* write: both handles of the update store the identity it names, m.
Matched(updates, remaining_accounts, m) ==
    \E k \in 1 .. Len(updates) :
        LET c == remaining_accounts[2 * k - 1]
            p == remaining_accounts[2 * k]
        IN  /\ LoadErr(Accounts, c, "AssetConfig") = "Ok"
            /\ LoadErr(Accounts, p, "PriceData") = "Ok"
            /\ asset_config[c.mint].mint = updates[k].mint
            /\ price_data[p.mint].mint = updates[k].mint
            /\ p.mint = m /\ updates[k].mint = m
            /\ asset_config[m].is_active

\* A batch writes the PriceData of an asset only through an update whose two
\* handles store the identity it names.
WrittenOnlyMatched(r, updates, remaining_accounts) ==
    \A m \in Mints :
        r.st.price_data[m] # price_data[m] => Matched(updates, remaining_accounts, m)

(***************************************************************************)
(* C8 as stated.  In batchSetPrices a PriceData record is written only if  *)
(* both handles at the positions of the update store the assetIdentity of  *)
(* the update, and if either differs the batch fails with AssetNotFound.   *)
(* batch_set_prices looks at the price of an update before its handles,    *)
(* and at the updates in order, so the error can be another: this fails.   *)
(***************************************************************************)
C8_MismatchIsAssetNotFound ==
    AtRest =>
    \A updates \in ShortBatches :
      \A remaining_accounts \in PairedHandleLists(updates), index \in 1 .. 4 :
        LET r == batch_set_prices(Accounts, UpdaterOf(index), index, updates,
                                  remaining_accounts, MaxTs, 0)
        IN  /\ WrittenOnlyMatched(r, updates, remaining_accounts)
            /\ \A k \in 1 .. Len(updates) :
                 Mismatched(updates, remaining_accounts, k)
                    => Rejected(r, "AssetNotFound")

(***************************************************************************)
(* C8, amended.  In batchSetPrices a PriceData record is written only if   *)
(* both handles at the positions of the update store the assetIdentity of  *)
(* the update (so never that of asset B on the strength of the AssetConfig *)
(* of asset A); if either differs the batch fails and changes no record,   *)
(* with AssetNotFound when that update is the first the batch rejects and  *)
(* its price is > 0.                                                       *)
(***************************************************************************)
C8_MismatchNeverWritten ==
    AtRest =>
    \A updates \in ShortBatches :
      \A remaining_accounts \in PairedHandleLists(updates), index \in 1 .. 4 :
        LET r == batch_set_prices(Accounts, UpdaterOf(index), index, updates,
                                  remaining_accounts, MaxTs, 0)
        IN  /\ WrittenOnlyMatched(r, updates, remaining_accounts)
            /\ \A k \in 1 .. Len(updates) :
                 Mismatched(updates, remaining_accounts, k) =>
                   /\ r.err # "Ok" /\ r.st = Accounts /\ r.ev = << >>
                   /\ (k = FirstOf(Rejects(updates, remaining_accounts))
                       /\ updates[k].price > 0) => r.err = "AssetNotFound"

\* A batch has just failed with AssetNotFound, where an update of an active
\* asset with the PriceData handle of another, inactive, asset is rejected
\* so, and with a price of 0 as InvalidPrice.
C8_Witness ==
    /\ last = [op |-> "batch_set_prices", err |-> "AssetNotFound"]
    /\ \E a \in Mints, b \in Mints :
         /\ Active(a) /\ Registered(b) /\ ~Active(b)
         /\ batch_set_prices(Accounts, PARAM1_UPDATER, 1,
                             << [mint |-> a, price |-> MaxPrice] >>,
                             << CfgHandle(a), PdHandle(b) >>, MaxTs, 0).err
              = "AssetNotFound"
         /\ batch_set_prices(Accounts, PARAM1_UPDATER, 1,
                             << [mint |-> a, price |-> 0] >>,
                             << CfgHandle(a), PdHandle(b) >>, MaxTs, 0).err
              = "InvalidPrice"

\* The assets registered: the AssetConfig records in existence.
RegisteredAssets == {m \in Mints : asset_config[m].exists}

\* The accounts with the counter of the registry at n, and the counter one
\* below the largest u32.
WithCount(n) == [Accounts EXCEPT !.registry.asset_count = n]
U32_MAX_LESS_1 == [hi |-> U16_MAX, lo |-> U16_MAX - 1]

\* The outcome r of an instruction other than register_asset leaves the
\* counter as it is, and all accounts when it is a failure.
CountKept(r) ==
    /\ r.st.registry.asset_count = registry.asset_count
    /\ r.err # "Ok" => r.st = Accounts

(***************************************************************************)
(* C9.  In every reachable state AssetRegistry.assetCount is the number of *)
(* AssetConfig records in existence: initializeRegistry starts it at 0, a  *)
(* successful registerAsset increases it by exactly 1, no other operation  *)
(* and no failed invocation changes it, and it never wraps: with the       *)
(* counter at the largest u32 a registration aborts and creates no record. *)
(***************************************************************************)
C9_CountIsRegistered ==
    /\ registry.asset_count = U32(Cardinality(RegisteredAssets))
    /\ AtRest =>
       /\ \A authority \in Keys :
            LET r == initialize_registry(Accounts, authority)
            IN  IF r.err = "Ok" THEN r.st.registry.asset_count = U32(0)
                ELSE r.st = Accounts
       /\ \A authority \in Keys, a \in RegisterArgs :
            LET r == register_asset(Accounts, authority, a.mint, a.symbol,
                                    a.decimals, a.pyth_feed_id)
                full == register_asset(WithCount(U32_MAX), authority, a.mint,
                                       a.symbol, a.decimals, a.pyth_feed_id)
                last1 == register_asset(WithCount(U32_MAX_LESS_1), authority, a.mint,
                                        a.symbol, a.decimals, a.pyth_feed_id)
            IN  /\ IF r.err = "Ok"
                   THEN /\ r.st.registry.asset_count.hi = registry.asset_count.hi
                        /\ r.st.registry.asset_count.lo = registry.asset_count.lo + 1
                        /\ ~asset_config[a.mint].exists
                        /\ r.st.asset_config[a.mint].exists
                   ELSE r.st = Accounts
                /\ full.err # "Ok" /\ full.st = WithCount(U32_MAX)
                /\ r.err = "Ok" => full.err = "ProgramFailedToComplete"
                /\ r.err = "Ok" => /\ last1.err = "Ok"
                                   /\ last1.st.registry.asset_count = U32_MAX
       /\ \A authority \in Keys, cfg \in Handles :
            /\ CountKept(deactivate_asset(Accounts, authority, cfg))
            /\ CountKept(activate_asset(Accounts, authority, cfg))
       /\ \A cfg \in Handles, pd \in Handles, signer \in Keys, index \in Indexes :
            \A price \in Prices :
              CountKept(set_price(Accounts, cfg, pd, signer, index, price, MaxTs, 0))
       /\ \A signer \in Keys, index \in Indexes, updates \in ShortBatches :
            CountKept(batch_set_prices(Accounts, signer, index, updates,
                                       OwnHandles(updates), MaxTs, 0))

\* Both assets are registered, the counter is 2, and a deactivation and a
\* price write have since succeeded.
C9_Witness ==
    /\ registry.asset_count = U32(2)
    /\ Cardinality(RegisteredAssets) = 2
    /\ last = [op |-> "deactivate_asset", err |-> "Ok"]
    /\ Len(log) = 1

(***************************************************************************)
(* C10 as stated.  registerAsset for an assetIdentity that is already      *)
(* registered always fails with AssetAlreadyRegistered, even when called   *)
(* by the administrative authority with a valid symbol, and leaves the     *)
(* AssetConfig, the PriceData and assetCount unchanged.  The program never *)
(* returns AssetAlreadyRegistered: the creation of the account that exists *)
(* fails in the system program, so this fails.                             *)
(***************************************************************************)
C10_ReRegistrationIsAssetAlreadyRegistered ==
    AtRest =>
    \A authority \in Keys, a \in RegisterArgs :
        Registered(a.mint) =>
            Rejected(register_asset(Accounts, authority, a.mint, a.symbol,
                                    a.decimals, a.pyth_feed_id),
                     "AssetAlreadyRegistered")

\* The outcome r is a failure and leaves every record as it was.
RejectedSomehow(r) == r.err # "Ok" /\ r.st = Accounts /\ r.ev = << >>

RecordsPaired ==
    \A m \in Mints :
        /\ asset_config[m].exists <=> price_data[m].exists
        /\ asset_config[m].exists =>
              asset_config[m].mint = m /\ price_data[m].mint = m

\* A step keeps the records that exist and the identity they store.
IdentityKept ==
    \A m \in Mints :
        asset_config[m].exists =>
            /\ asset_config'[m].exists /\ price_data'[m].exists
            /\ asset_config'[m].mint = asset_config[m].mint
            /\ price_data'[m].mint = price_data[m].mint

\* A successful register_asset creates the two records of one identity, the
\* AssetConfig active and the PriceData zeroed; no other step creates one.
CreatedFresh ==
    LET created == {m \in Mints : ~asset_config[m].exists /\ asset_config'[m].exists}
    IN  IF last'.op = "register_asset" /\ last'.err = "Ok"
        THEN /\ Cardinality(created) = 1
             /\ \A m \in created :
                  /\ asset_config'[m].is_active
                  /\ price_data'[m].prices = TripletDefault
                  /\ price_data'[m].last_update = 0
        ELSE created = {}

(***************************************************************************)
(* C12.  In every reachable state, for every assetIdentity the AssetConfig *)
(* exists if and only if the PriceData exists and both store that          *)
(* identity; no step changes the identity a record stores; and right after *)
(* a successful registerAsset the new AssetConfig has isActive = true and  *)
(* the new PriceData has its eight Triplet fields and lastUpdate at 0.     *)
(***************************************************************************)
C12_RecordsPaired ==
    /\ []RecordsPaired
    /\ [][IdentityKept /\ CreatedFresh]_vars

\* The second asset has just been registered, after a price of the first
\* was written.
C12_Witness ==
    /\ last = [op |-> "register_asset", err |-> "Ok"]
    /\ Cardinality(RegisteredAssets) = 2
    /\ \E m \in Mints : price_data[m].last_update > 0
    /\ \E m \in Mints : Active(m) /\ price_data[m] =
           [exists |-> TRUE, mint |-> m, prices |-> TripletDefault, last_update |-> 0]

\* The outcome r of a toggle on cfg to the flag active, when a success,
\* is the accounts with that one flag set and no event, and the same toggle
\* on its accounts succeeds and changes nothing more.
ToggleFrame(r, again, cfg, active) ==
    r.err = "Ok" =>
        /\ r.st = [Accounts EXCEPT !.asset_config[cfg.mint].is_active = active]
        /\ r.st.price_data = price_data
        /\ r.st.registry = registry
        /\ r.ev = << >>
        /\ again.err = "Ok" /\ again.st = r.st

(***************************************************************************)
(* C13.  A successful activateAsset / deactivateAsset on asset M sets only *)
(* AssetConfig(M).isActive, to true / false, idempotently, and leaves      *)
(* unchanged M's PriceData (prices, timestamps and lastUpdate are kept     *)
(* across deactivation and reactivation), the other fields of M's          *)
(* AssetConfig, the records of every other asset and the AssetRegistry.    *)
(***************************************************************************)
C13_ToggleFrame ==
    AtRest =>
    \A authority \in Keys, cfg \in Handles :
        LET d == deactivate_asset(Accounts, authority, cfg)
            a == activate_asset(Accounts, authority, cfg)
            da == activate_asset(d.st, authority, cfg)
        IN  /\ ToggleFrame(d, deactivate_asset(d.st, authority, cfg), cfg, FALSE)
            /\ ToggleFrame(a, activate_asset(a.st, authority, cfg), cfg, TRUE)
            /\ d.err = "Ok" =>
                  /\ da.err = "Ok"
                  /\ da.st.price_data = price_data
                  /\ da.st = [Accounts EXCEPT !.asset_config[cfg.mint].is_active = TRUE]

\* An asset whose price was written has just been deactivated and holds it,
\* next to another registered asset.
C13_Witness ==
    /\ last = [op |-> "deactivate_asset", err |-> "Ok"]
    /\ Cardinality(RegisteredAssets) = 2
    /\ \E m \in Mints :
         /\ Registered(m) /\ ~Active(m)
         /\ price_data[m].last_update > 0
         /\ price_data[m].prices # TripletDefault

\* What the specification calls AlreadyInitialized: the refusal of the host
\* to create an account at an address that holds one.
AlreadyInitialized == InitErr(TRUE)

\* initialize_registry on the accounts as they are: without a registry it
\* creates one with the authority given and a count of 0 and nothing else,
\* with one it is refused and changes nothing.
InitializeOnce ==
    \A authority \in Keys :
        LET r == initialize_registry(Accounts, authority)
        IN  IF registry.exists
            THEN Rejected(r, AlreadyInitialized)
            ELSE /\ r.err = "Ok" /\ r.ev = << >>
                 /\ r.st.registry = [exists |-> TRUE, authority |-> authority,
                                     asset_count |-> U32(0)]
                 /\ r.st.asset_config = asset_config
                 /\ r.st.price_data = price_data

\* No instruction of the administrator, by any signer, changes the authority
\* of a registry that exists.
AdminKeepsAuthority ==
    registry.exists =>
      /\ \A authority \in Keys, a \in RegisterArgs :
           register_asset(Accounts, authority, a.mint, a.symbol, a.decimals,
                          a.pyth_feed_id).st.registry.authority = registry.authority
      /\ \A authority \in Keys, cfg \in Handles :
           /\ deactivate_asset(Accounts, authority, cfg).st.registry.authority
                = registry.authority
           /\ activate_asset(Accounts, authority, cfg).st.registry.authority
                = registry.authority

\* A step keeps a registry that exists, and its authority.
AuthorityKept ==
    registry.exists =>
        registry'.exists /\ registry'.authority = registry.authority

(***************************************************************************)
(* C14.  initializeRegistry succeeds at most once per deployment: the      *)
(* first call creates the registry with the given authority and            *)
(* assetCount = 0, every later call fails with AlreadyInitialized and      *)
(* leaves the authority and assetCount unchanged, and no step changes the  *)
(* authority of the registry once it exists.                               *)
(***************************************************************************)
C14_InitializeOnce ==
    /\ [](AtRest => (InitializeOnce /\ AdminKeepsAuthority))
    /\ [][AuthorityKept]_vars

\* A second initialize_registry has just been refused, with both assets
\* registered.
C14_Witness ==
    /\ last = [op |-> "initialize_registry", err |-> AlreadyInitialized]
    /\ registry.exists /\ registry.authority = ADMIN
    /\ registry.asset_count = U32(2)

\* Two price writes on the own records of m, the first of slot i and the
\* second of slot j, each signed by the key of its slot, on the accounts
\* as they are.
TwoWrites(m, i, price_i, ts_i, j, price_j, ts_j) ==
    LET first == SetPriceOn(m, UpdaterOf(i), i, price_i, ts_i, 0)
    IN  IF first.err # "Ok" THEN first
        ELSE set_price(first.st, CfgHandle(m), PdHandle(m), UpdaterOf(j), j,
                       price_j, ts_j, 0)

(***************************************************************************)
(* C15.  For an active asset, any PriceData it starts with and two source  *)
(* indices i # j, a successful setPrice for source i followed by one for   *)
(* source j leaves the same Triplet, all eight fields, as the two in the   *)
(* opposite order.                                                         *)
(***************************************************************************)
C15_CrossSourceCommutes ==
    AtRest =>
    \A m \in Mints, i \in 1 .. 4, j \in 1 .. 4 :
      \A price_i \in 1 .. MaxPrice, price_j \in 1 .. MaxPrice :
        \A ts_i \in Timestamps, ts_j \in Timestamps :
          LET ij == TwoWrites(m, i, price_i, ts_i, j, price_j, ts_j)
              ji == TwoWrites(m, j, price_j, ts_j, i, price_i, ts_i)
          IN  (i # j /\ ij.err = "Ok") =>
                /\ ji.err = "Ok"
                /\ ij.st.price_data[m].prices = ji.st.price_data[m].prices
                /\ SlotOf(ij.st.price_data[m], i) = << price_i, ts_i >>
                /\ SlotOf(ij.st.price_data[m], j) = << price_j, ts_j >>

\* Slot 1 of MintA has just been written on a record whose slot 2 held a
\* write, with another price and another timestamp.
C15_Witness ==
    /\ last = [op |-> "set_price", err |-> "Ok"]
    /\ Len(log) = 1 /\ log[1].mint = "MintA" /\ log[1].index = 1
    /\ SlotOf(price_data["MintA"], 1) = << 1, 0 >>
    /\ SlotOf(price_data["MintA"], 2) = << MaxPrice, MaxTs >>

\* The same two writes as batches of one update each.
TwoBatchWrites(m, i, price_i, ts_i, j, price_j, ts_j) ==
    LET first == batch_set_prices(Accounts, UpdaterOf(i), i,
                                  << [mint |-> m, price |-> price_i] >>,
                                  << CfgHandle(m), PdHandle(m) >>, ts_i, 0)
    IN  IF first.err # "Ok" THEN first
        ELSE batch_set_prices(first.st, UpdaterOf(j), j,
                              << [mint |-> m, price |-> price_j] >>,
                              << CfgHandle(m), PdHandle(m) >>, ts_j, 0)

\* The fields of a PriceData, by name, and those that differ between two.
PriceDataFields(pd) ==
    [param1 |-> pd.prices.param1, param2 |-> pd.prices.param2,
     param3 |-> pd.prices.param3, param4 |-> pd.prices.param4,
     ts1 |-> pd.prices.ts1, ts2 |-> pd.prices.ts2,
     ts3 |-> pd.prices.ts3, ts4 |-> pd.prices.ts4,
     last_update |-> pd.last_update, mint |-> pd.mint]
Differing(pd, qd) ==
    {f \in DOMAIN PriceDataFields(pd) : PriceDataFields(pd)[f] # PriceDataFields(qd)[f]}

\* The fields a write of source i may change.
FieldsOf(i) ==
    << {"param1", "ts1"}, {"param2", "ts2"}, {"param3", "ts3"}, {"param4", "ts4"} >>[i]

(***************************************************************************)
(* C16 as stated.  Updates from different sources to the same asset never  *)
(* write the same field of the PriceData, so for two successful updates    *)
(* from distinct sources, with arbitrary timestamps, both serialization    *)
(* orders leave the same PriceData record.  Every update writes            *)
(* last_update, so with different timestamps this fails.                   *)
(***************************************************************************)
C16_OrdersLeaveSameRecord ==
    AtRest =>
    \A m \in Mints, i \in 1 .. 4, j \in 1 .. 4 :
      \A price_i \in 1 .. MaxPrice, price_j \in 1 .. MaxPrice :
        \A ts_i \in Timestamps, ts_j \in Timestamps :
          LET ij == TwoWrites(m, i, price_i, ts_i, j, price_j, ts_j)
              ji == TwoWrites(m, j, price_j, ts_j, i, price_i, ts_i)
          IN  (i # j /\ ij.err = "Ok" /\ ji.err = "Ok") =>
                ij.st.price_data[m] = ji.st.price_data[m]

(***************************************************************************)
(* C16, amended.  Updates from different sources to the same asset never   *)
(* write the same Triplet field: source i writes price_i and timestamp_i,  *)
(* and every source writes lastUpdate.  For two successful updates from    *)
(* distinct sources, by setPrice or by batchSetPrices, both serialization  *)
(* orders leave the same Triplet; lastUpdate is the timestamp of the       *)
(* update serialized last, so the whole record is the same in both orders  *)
(* exactly when the two timestamps are equal.                              *)
(***************************************************************************)
C16_OrdersLeaveSameTriplet ==
    AtRest =>
    \A m \in Mints, i \in 1 .. 4, j \in 1 .. 4 :
      \A price_i \in 1 .. MaxPrice, price_j \in 1 .. MaxPrice :
        \A ts_i \in Timestamps, ts_j \in Timestamps :
          LET ij == TwoWrites(m, i, price_i, ts_i, j, price_j, ts_j)
              ji == TwoWrites(m, j, price_j, ts_j, i, price_i, ts_i)
              one == SetPriceOn(m, UpdaterOf(i), i, price_i, ts_i, 0)
              bij == TwoBatchWrites(m, i, price_i, ts_i, j, price_j, ts_j)
              other == SetPriceOn(m, UpdaterOf(j), j, price_j, ts_j, 0)
          IN  (i < j /\ ij.err = "Ok") =>
                /\ ji.err = "Ok" /\ bij.err = "Ok"
                /\ Differing(one.st.price_data[m], price_data[m])
                      \subseteq FieldsOf(i) \cup {"last_update"}
                /\ Differing(other.st.price_data[m], price_data[m])
                      \subseteq FieldsOf(j) \cup {"last_update"}
                /\ ij.st.price_data[m].prices = ji.st.price_data[m].prices
                /\ ij.st.price_data[m].last_update = ts_j
                /\ ji.st.price_data[m].last_update = ts_i
                /\ (ij.st.price_data[m] = ji.st.price_data[m]) <=> (ts_i = ts_j)
                /\ bij.st = ij.st

\* Slot 2 of MintA has just been written at timestamp 0 on a record whose
\* slot 3 holds a write of the largest timestamp: last_update went back.
C16_Witness ==
    /\ last = [op |-> "set_price", err |-> "Ok"]
    /\ Len(log) = 1 /\ log[1].mint = "MintA" /\ log[1].index = 2
    /\ log[1].client_ts_ms = 0
    /\ SlotOf(price_data["MintA"], 3) = << MaxPrice, MaxTs >>
    /\ price_data["MintA"].last_update = 0

(***************************************************************************)
(* C17.  setPrice is idempotent on record state: from any state, the same  *)
(* successful setPrice (asset, index, price, timestamp, signer) applied    *)
(* twice leaves the slot (price_i, timestamp_i), the whole PriceData and   *)
(* every other record as applying it once does; the second call succeeds   *)
(* and emits the same notification again.                                  *)
(***************************************************************************)
C17_SetPriceIdempotent ==
    AtRest =>
    \A m \in Mints, signer \in Keys, index \in Indexes :
      \A price \in Prices, client_ts_ms \in Timestamps :
        LET once == SetPriceOn(m, signer, index, price, client_ts_ms, 0)
            twice == set_price(once.st, CfgHandle(m), PdHandle(m), signer, index,
                               price, client_ts_ms, 0)
        IN  once.err = "Ok" =>
              /\ twice.err = "Ok"
              /\ SlotOf(twice.st.price_data[m], index) = << price, client_ts_ms >>
              /\ twice.st.price_data[m] = once.st.price_data[m]
              /\ twice.st = once.st
              /\ twice.ev = once.ev

\* Slot 4 of MintA has just been written next to an older write of slot 1,
\* and the same call on the accounts as they are now changes nothing.
C17_Witness ==
    /\ last = [op |-> "set_price", err |-> "Ok"]
    /\ Len(log) = 1 /\ log[1].mint = "MintA" /\ log[1].index = 4
    /\ SlotOf(price_data["MintA"], 1) = << MaxPrice, MaxTs >>
    /\ SetPriceOn("MintA", PARAM4_UPDATER, 4, log[1].price, log[1].client_ts_ms,
                  0).st = Accounts
    /\ SetPriceOn("MintA", PARAM4_UPDATER, 4, log[1].price, log[1].client_ts_ms,
                  0).err = "Ok"

(***************************************************************************)
(* The symbols tried: chars of one to four bytes, encodings of 16 bytes    *)
(* and of more at 16 chars or fewer, the empty symbol, and symbols that    *)
(* hold the char U+0000, whose encoding is the zero byte.                  *)
(***************************************************************************)
Rep(n, c) == [i \in 1 .. n |-> c]
Symbols ==
    { << >>, << 83, 79, 76 >>, Rep(15, 65), Rep(16, 65), Rep(17, 66),
      Rep(8, 233), Rep(7, 233) \o << 65 >>, Rep(9, 233),
      Rep(5, 8364) \o << 65 >>, Rep(5, 8364) \o << 233 >>,
      Rep(4, 128512), Rep(4, 128512) \o << 65 >>,
      << 65, 0, 66 >>, << 0 >>, Rep(15, 65) \o << 0 >> }
NulFree(s) == \A i \in 1 .. Len(s) : s[i] # 0

\* registerAsset of an unregistered mint by the authority, with symbol s.
RegisterSymbol(m, s) ==
    register_asset(Accounts, registry.authority, m, as_bytes(s), 6, None)

\* Accepted exactly at 16 bytes or fewer, SymbolTooLong otherwise with
\* nothing created; the stored buffer is the bytes, then zeros.
SymbolStored(m, s) ==
    LET r == RegisterSymbol(m, s)
        b == as_bytes(s)
    IN  /\ r.err = "Ok" <=> Len(b) <= 16
        /\ Len(b) > 16 => Rejected(r, "SymbolTooLong")
        /\ r.err = "Ok" =>
             /\ r.st.asset_config[m].symbol = b \o Rep(16 - Len(b), 0)
             /\ r.st.price_data[m].exists

\* Decoding what was stored gives the symbol back.
SymbolRoundTrips(m, s) ==
    LET r == RegisterSymbol(m, s)
    IN  r.err = "Ok" => symbol_as_string(r.st.asset_config[m]) = s

(***************************************************************************)
(* C18.  registerAsset by the authority accepts a symbol exactly when its  *)
(* UTF-8 encoding is at most 16 bytes (16 bytes succeeds, 17 bytes fails   *)
(* with SymbolTooLong and creates nothing); for every accepted symbol the  *)
(* stored buffer is the symbol's bytes followed by zero bytes up to length *)
(* 16, and symbol_as_string of the stored record returns the symbol.       *)
(***************************************************************************)
C18_SymbolRoundTrip ==
    (AtRest /\ registry.exists) =>
    \A m \in Mints \ RegisteredAssets, s \in Symbols :
      SymbolStored(m, s) /\ SymbolRoundTrips(m, s)

\* What the handlers do keep: acceptance and the stored buffer for every
\* symbol, and the round trip for every symbol without the char U+0000.
SymbolRoundTripsNulFree ==
    (AtRest /\ registry.exists) =>
    \A m \in Mints \ RegisteredAssets, s \in Symbols :
      SymbolStored(m, s) /\ (NulFree(s) => SymbolRoundTrips(m, s))

\* A symbol holding U+0000 is accepted and decodes to what stands before it.
SymbolCutAtNul ==
    (AtRest /\ registry.exists) =>
    \A m \in Mints \ RegisteredAssets :
      LET r == RegisterSymbol(m, << 65, 0, 66 >>)
      IN  r.err = "Ok" /\ symbol_as_string(r.st.asset_config[m]) = << 65 >>

\* An asset is unregistered, active or inactive.
Lifecycle(cfg) ==
    IF ~cfg.exists THEN "unregistered"
    ELSE IF cfg.is_active THEN "active" ELSE "inactive"

\* An unregistered asset carries no flag.
UnregisteredUnflagged == \A m \in Mints : ~Registered(m) => ~asset_config[m].is_active

\* The instructions that move an asset succeed for the authority only;
\* registerAsset leaves the asset active, deactivateAsset inactive and
\* activateAsset active, and the toggles are open to the authority whenever
\* the asset is registered.
LifecycleMoves ==
    /\ \A signer \in Keys, a \in RegisterArgs :
         LET r == register_asset(Accounts, signer, a.mint, a.symbol, a.decimals,
                                 a.pyth_feed_id)
         IN  r.err = "Ok" =>
               /\ registry.exists /\ signer = registry.authority
               /\ Lifecycle(asset_config[a.mint]) = "unregistered"
               /\ Lifecycle(r.st.asset_config[a.mint]) = "active"
               /\ \A o \in Mints \ {a.mint} :
                    r.st.asset_config[o] = asset_config[o]
    /\ \A signer \in Keys, cfg \in Handles :
         LET off == deactivate_asset(Accounts, signer, cfg)
             on == activate_asset(Accounts, signer, cfg)
             own == cfg.kind = "AssetConfig" /\ Registered(cfg.mint)
         IN  /\ off.err = "Ok" <=> on.err = "Ok"
             /\ off.err = "Ok" <=>
                  (registry.exists /\ signer = registry.authority /\ own)
             /\ off.err = "Ok" =>
                  /\ Lifecycle(off.st.asset_config[cfg.mint]) = "inactive"
                  /\ Lifecycle(on.st.asset_config[cfg.mint]) = "active"
                  /\ \A o \in Mints \ {cfg.mint} :
                       /\ off.st.asset_config[o] = asset_config[o]
                       /\ on.st.asset_config[o] = asset_config[o]

\* One step of the program moves each asset along the lifecycle only.
LifecycleStep ==
    \A m \in Mints :
      LET from == Lifecycle(asset_config[m])
          to == Lifecycle(asset_config'[m])
      IN  /\ to = "unregistered" => from = "unregistered"
          /\ (from = "unregistered" /\ to # "unregistered") =>
               (to = "active" /\ last' = [op |-> "register_asset", err |-> "Ok"])
          /\ (from = "active" /\ to = "inactive") =>
               last' = [op |-> "deactivate_asset", err |-> "Ok"]
          /\ (from = "inactive" /\ to = "active") =>
               last' = [op |-> "activate_asset", err |-> "Ok"]

(***************************************************************************)
(* C19.  Each asset's lifecycle is unregistered -> active (successful      *)
(* registerAsset) -> {inactive <-> active} (successful deactivateAsset /   *)
(* activateAsset): an asset is active immediately after registration,      *)
(* isActive changes only through a successful activateAsset or             *)
(* deactivateAsset by the authority, and a registered asset never returns  *)
(* to unregistered under any sequence of the instructions.                 *)
(***************************************************************************)
C19_Lifecycle ==
    /\ [](UnregisteredUnflagged /\ (AtRest => LifecycleMoves))
    /\ [][LifecycleStep]_vars

\* MintB has been registered and deactivated, and stays so while MintA,
\* registered too, has just been activated.
C19_Witness ==
    /\ last = [op |-> "activate_asset", err |-> "Ok"]
    /\ Lifecycle(asset_config["MintA"]) = "active"
    /\ Lifecycle(asset_config["MintB"]) = "inactive"

\* The indexes outside 1..4.
OutOfRange == Indexes \ (1 .. 4)

(***************************************************************************)
(* C20 as stated.  setPrice and batchSetPrices with a sourceIndex outside  *)
(* 1..4 fail with BadIndex and change no record, for every signer, asset   *)
(* state and price.  Read for setPrice on the own records of a registered  *)
(* asset, active or not.                                                   *)
(***************************************************************************)
C20_OutOfRangeIsBadIndex ==
    AtRest =>
    \A signer \in Keys, index \in OutOfRange :
      /\ \A m \in Mints, price \in Prices, client_ts_ms \in Timestamps :
           Registered(m) =>
             Rejected(SetPriceOn(m, signer, index, price, client_ts_ms, 0),
                      "BadIndex")
      /\ \A updates \in Batches :
           \A remaining_accounts \in HandleLists(updates) :
             Rejected(batch_set_prices(Accounts, signer, index, updates,
                                       remaining_accounts, MaxTs, 0),
                      "BadIndex")

(***************************************************************************)
(* C20.  setPrice and batchSetPrices with a sourceIndex outside 1..4 fail  *)
(* and change no record, for every signer, asset state and price, and      *)
(* never with UnauthorizedForIndex.  batchSetPrices fails with BadIndex    *)
(* whatever the batch and the accounts passed; setPrice checks the index   *)
(* after the asset and the price, so it fails with BadIndex when the       *)
(* records load, the asset is active and the price is positive, with       *)
(* AssetInactive on an inactive asset and with InvalidPrice on an active   *)
(* one at a price <= 0.                                                    *)
(***************************************************************************)
C20_OutOfRangeRejected ==
    AtRest =>
    \A signer \in Keys, index \in OutOfRange :
      /\ \A cfg \in Handles, pd \in Handles :
           \A price \in Prices, client_ts_ms \in Timestamps :
             LET r == set_price(Accounts, cfg, pd, signer, index, price,
                                client_ts_ms, 0)
                 acc == SetPriceAccountsErr(Accounts, cfg, pd)
             IN  /\ RejectedSomehow(r)
                 /\ r.err # "UnauthorizedForIndex"
                 /\ r.err = IF acc # "Ok" THEN acc
                            ELSE IF ~Active(cfg.mint) THEN "AssetInactive"
                            ELSE IF price <= 0 THEN "InvalidPrice"
                            ELSE "BadIndex"
      /\ \A updates \in Batches :
           \A remaining_accounts \in HandleLists(updates) :
             Rejected(batch_set_prices(Accounts, signer, index, updates,
                                       remaining_accounts, MaxTs, 0),
                      "BadIndex")

\* A setPrice has just failed with BadIndex; on the accounts it left, MintA
\* is active and MintB inactive, and an index outside 1..4 is answered
\* with BadIndex, InvalidPrice or AssetInactive by setPrice and with
\* BadIndex by a batch of the same faults.
C20_Witness ==
    /\ last = [op |-> "set_price", err |-> "BadIndex"]
    /\ Active("MintA") /\ Registered("MintB") /\ ~Active("MintB")
    /\ SetPriceOn("MintA", PARAM1_UPDATER, 5, 1, 0, 0).err = "BadIndex"
    /\ SetPriceOn("MintA", PARAM1_UPDATER, 5, 0, 0, 0).err = "InvalidPrice"
    /\ SetPriceOn("MintB", PARAM1_UPDATER, 0, 1, 0, 0).err = "AssetInactive"
    /\ batch_set_prices(Accounts, PARAM1_UPDATER, 5,
                        << [mint |-> "MintB", price |-> 0] >>,
                        << CfgHandle("MintB"), PdHandle("MintB") >>, 0, 0).err
         = "BadIndex"

\* The batch of the one update (m, price) on the asset's own records.
BatchOfOne(st, m, i, price, client_ts_ms) ==
    batch_set_prices(st, UpdaterOf(i), i, << [mint |-> m, price |-> price] >>,
                     << CfgHandle(m), PdHandle(m) >>, client_ts_ms, 0)

\* Two writes of source i to asset m, the second after the first: both
\* succeed whatever the order of their timestamps, and the asset's record
\* is the one the second alone leaves.
SecondWriteWins(m, i, price_1, ts_1, price_2, ts_2) ==
    LET first == SetPriceOn(m, UpdaterOf(i), i, price_1, ts_1, 0)
        second == set_price(first.st, CfgHandle(m), PdHandle(m), UpdaterOf(i), i,
                            price_2, ts_2, 0)
        alone == SetPriceOn(m, UpdaterOf(i), i, price_2, ts_2, 0)
        batched == BatchOfOne(first.st, m, i, price_2, ts_2)
        batchFirst == BatchOfOne(Accounts, m, i, price_1, ts_1)
    IN  /\ first.err = "Ok" /\ second.err = "Ok"
        /\ batched.err = "Ok" /\ batchFirst.err = "Ok"
        /\ SlotOf(first.st.price_data[m], i) = << price_1, ts_1 >>
        /\ SlotOf(second.st.price_data[m], i) = << price_2, ts_2 >>
        /\ second.st.price_data[m].last_update = ts_2
        /\ second.st = alone.st
        /\ batched.st = second.st
        /\ batchFirst.st = first.st

\* No instruction answers StalePrice.
NeverStalePrice ==
    /\ last.err # "StalePrice"
    /\ \A signer \in Keys, index \in Indexes, m \in Mints :
         /\ \A price \in Prices, client_ts_ms \in Timestamps :
              SetPriceOn(m, signer, index, price, client_ts_ms, 0).err # "StalePrice"
         /\ \A price \in {0, MaxPrice} :
              batch_set_prices(Accounts, signer, index,
                               << [mint |-> m, price |-> price] >>,
                               << CfgHandle(m), PdHandle(m) >>, 0, 0).err
                # "StalePrice"
    /\ \A signer \in Keys, cfg \in Handles :
         /\ initialize_registry(Accounts, signer).err # "StalePrice"
         /\ deactivate_asset(Accounts, signer, cfg).err # "StalePrice"
         /\ activate_asset(Accounts, signer, cfg).err # "StalePrice"
    /\ \A signer \in Keys, a \in RegisterArgs :
         register_asset(Accounts, signer, a.mint, a.symbol, a.decimals,
                        a.pyth_feed_id).err # "StalePrice"

(***************************************************************************)
(* C21.  No timestamp monotonicity is enforced: an authorized setPrice or  *)
(* batchSetPrices whose clientTimestampMs is smaller than the slot's       *)
(* timestamp_i or than lastUpdate succeeds and overwrites; no instruction  *)
(* returns StalePrice; and after two successful writes of the same source  *)
(* to the same asset, in either order, the slot holds exactly the price    *)
(* and the timestamp of the write that committed last.                     *)
(***************************************************************************)
C21_LastWriteWins ==
    /\ NeverStalePrice
    /\ AtRest =>
       \A m \in Mints, i \in 1 .. 4 :
         \A price_1 \in 1 .. MaxPrice, price_2 \in 1 .. MaxPrice :
           \A ts_1 \in Timestamps, ts_2 \in Timestamps :
             SecondWriteWins(m, i, price_1, ts_1, price_2, ts_2)

\* Source 1 has just written MintA at MaxTs, and a write of the same source
\* at the older timestamp 0 and another price overwrites the slot and
\* takes lastUpdate back.
C21_Witness ==
    /\ last = [op |-> "set_price", err |-> "Ok"]
    /\ Len(log) = 1 /\ log[1].mint = "MintA" /\ log[1].index = 1
    /\ MaxTs > 0
    /\ SlotOf(price_data["MintA"], 1) = << MaxPrice, MaxTs >>
    /\ price_data["MintA"].last_update = MaxTs
    /\ LET stale == SetPriceOn("MintA", PARAM1_UPDATER, 1, 1, 0, 0)
       IN  /\ stale.err = "Ok"
           /\ SlotOf(stale.st.price_data["MintA"], 1) = << 1, 0 >>
           /\ stale.st.price_data["MintA"].last_update = 0

\* The first failing check of update k in the order: price > 0, the two
\* handles load, both store the identity the update names, the asset is
\* active; "Ok" when every check passes.
PriceFirst(updates, remaining_accounts, k) ==
    LET c == remaining_accounts[2 * k - 1]
        p == remaining_accounts[2 * k]
    IN  IF updates[k].price <= 0 THEN "InvalidPrice"
        ELSE IF LoadErr(Accounts, c, "AssetConfig") # "Ok"
             THEN LoadErr(Accounts, c, "AssetConfig")
        ELSE IF LoadErr(Accounts, p, "PriceData") # "Ok"
             THEN LoadErr(Accounts, p, "PriceData")
        ELSE IF Mismatched(updates, remaining_accounts, k) THEN "AssetNotFound"
        ELSE IF ~asset_config[c.mint].is_active THEN "AssetInactive"
        ELSE "Ok"

\* The same in the order: the two handles load, both store the identity
\* the update names, the asset is active, price > 0.
PriceLast(updates, remaining_accounts, k) ==
    LET c == remaining_accounts[2 * k - 1]
        p == remaining_accounts[2 * k]
    IN  IF LoadErr(Accounts, c, "AssetConfig") # "Ok"
        THEN LoadErr(Accounts, c, "AssetConfig")
        ELSE IF LoadErr(Accounts, p, "PriceData") # "Ok"
             THEN LoadErr(Accounts, p, "PriceData")
        ELSE IF Mismatched(updates, remaining_accounts, k) THEN "AssetNotFound"
        ELSE IF ~asset_config[c.mint].is_active THEN "AssetInactive"
        ELSE IF updates[k].price <= 0 THEN "InvalidPrice"
        ELSE "Ok"

\* Every update of the batch is passed an AssetConfig and a PriceData that
\* load.
AllLoad(updates, remaining_accounts) ==
    \A k \in 1 .. Len(updates) :
        /\ LoadErr(Accounts, remaining_accounts[2 * k - 1], "AssetConfig") = "Ok"
        /\ LoadErr(Accounts, remaining_accounts[2 * k], "PriceData") = "Ok"

(***************************************************************************)
(* C22 as stated.  In batchSetPrices the updates are validated in input    *)
(* order and, within one update, in the order identity of both handles     *)
(* (AssetNotFound), isActive (AssetInactive), price > 0 (InvalidPrice);    *)
(* the error of a failing batch is the first failing check in this order   *)
(* of the first failing update.  batch_set_prices looks at the price of an *)
(* update first, so this fails.                                            *)
(***************************************************************************)
C22_IdentityActivePrice ==
    AtRest =>
    \A updates \in ShortBatches :
      \A remaining_accounts \in PairedHandleLists(updates) :
        LET bad == Rejects(updates, remaining_accounts)
            r == batch_set_prices(Accounts, PARAM1_UPDATER, 1, updates,
                                  remaining_accounts, MaxTs, 0)
        IN  AllLoad(updates, remaining_accounts) =>
              r.err = IF bad = {} THEN "Ok"
                      ELSE PriceLast(updates, remaining_accounts, FirstOf(bad))

(***************************************************************************)
(* C22.  In batchSetPrices the updates are validated in input order and,   *)
(* within one update, in the order: price > 0 (InvalidPrice), the two      *)
(* handles load, the stored identity of both handles equals the update's   *)
(* identity (AssetNotFound), AssetConfig.isActive (AssetInactive); the     *)
(* error of a failing batch is the first failing check in this order of    *)
(* the first failing update, so an update naming an inactive asset with a  *)
(* price <= 0 yields InvalidPrice.                                         *)
(***************************************************************************)
C22_PriceIdentityActive ==
    AtRest =>
    \A updates \in ShortBatches :
      \A remaining_accounts \in PairedHandleLists(updates) :
        LET bad == Rejects(updates, remaining_accounts)
            first == IF bad = {} THEN "Ok"
                     ELSE PriceFirst(updates, remaining_accounts, FirstOf(bad))
        IN  /\ bad # {} => first # "Ok"
            /\ \A index \in {1, 4} :
                 batch_set_prices(Accounts, UpdaterOf(index), index, updates,
                                  remaining_accounts, MaxTs, 0).err = first

\* A batch has just failed with InvalidPrice; MintA is active and MintB
\* inactive, an update of MintB at price 0 is answered InvalidPrice, at a
\* positive price AssetInactive, and after a valid update of MintA the
\* same; a faulty second update does not hide the fault of the first.
C22_Witness ==
    /\ last = [op |-> "batch_set_prices", err |-> "InvalidPrice"]
    /\ Active("MintA") /\ Registered("MintB") /\ ~Active("MintB")
    /\ LET a == [mint |-> "MintA", price |-> MaxPrice]
           b0 == [mint |-> "MintB", price |-> 0]
           b1 == [mint |-> "MintB", price |-> 1]
           run(updates) == batch_set_prices(Accounts, PARAM1_UPDATER, 1, updates,
                                            OwnHandles(updates), MaxTs, 0).err
       IN  /\ run(<< b0 >>) = "InvalidPrice"
           /\ run(<< b1 >>) = "AssetInactive"
           /\ run(<< a, b0 >>) = "InvalidPrice"
           /\ run(<< b1, b0 >>) = "AssetInactive"

\* The events r of a batch: none when it failed, and when it succeeded one
\* for each update, the k-th naming the asset and the price of updates[k],
\* all with the index, the timestamp and the slot of the invocation.
BatchEvents(r, index, updates, client_ts_ms, slot) ==
    IF r.err # "Ok" THEN r.ev = << >>
    ELSE /\ Len(r.ev) = Len(updates)
         /\ \A k \in 1 .. Len(updates) :
              /\ r.ev[k].mint = updates[k].mint
              /\ r.ev[k].price = updates[k].price
              /\ r.ev[k].index = index
              /\ r.ev[k].client_ts_ms = client_ts_ms
              /\ r.ev[k].slot = slot

\* What the handlers emit, on every input.
EmittedPerUpdate ==
    /\ \A updates \in ShortBatches :
         \A remaining_accounts \in PairedHandleLists(updates), index \in {1, 4} :
           BatchEvents(batch_set_prices(Accounts, UpdaterOf(index), index, updates,
                                        remaining_accounts, MaxTs, MaxSlot + 1),
                       index, updates, MaxTs, MaxSlot + 1)
    /\ \A signer \in Keys, index \in Indexes :
         /\ BatchEvents(batch_set_prices(Accounts, signer, index, << >>, << >>, 0, 0),
                        index, << >>, 0, 0)
         /\ \A m \in Mints, price \in Prices :
              LET r == SetPriceOn(m, signer, index, price, MaxTs, MaxSlot + 1)
              IN  Len(r.ev) = IF r.err = "Ok" THEN 1 ELSE 0

\* One instruction appends to the log what it emitted: nothing when it
\* failed or is not a price write, one event for set_price.
LogStep ==
    /\ SubSeq(log', 1, Len(log)) = log
    /\ last'.err # "Ok" => log' = log
    /\ last'.op \notin {"set_price", "batch_set_prices"} => log' = log
    /\ (last'.op = "set_price" /\ last'.err = "Ok") => Len(log') = Len(log) + 1
    /\ \A k \in Len(log) + 1 .. Len(log') :
         /\ log'[k].index = log'[Len(log')].index
         /\ log'[k].client_ts_ms = log'[Len(log')].client_ts_ms
         /\ log'[k].slot = log'[Len(log')].slot

(***************************************************************************)
(* C23.  A successful batchSetPrices with n updates appends exactly n      *)
(* notifications, the k-th carrying the assetIdentity and the price of     *)
(* updates[k], in input order, all with the same sourceIndex,              *)
(* clientTimestampMs and hostSequenceMarker; a successful setPrice appends *)
(* exactly one; a failed invocation appends none.                          *)
(***************************************************************************)
C23_OneEventPerUpdate ==
    /\ [](AtRest => EmittedPerUpdate)
    /\ [][LogStep]_vars

\* A batch of two updates has just appended two events to an empty log, for
\* MintB first and MintA second, at different prices.
C23_Witness ==
    /\ last = [op |-> "batch_set_prices", err |-> "Ok"]
    /\ Len(log) = 2
    /\ log[1].mint = "MintB" /\ log[2].mint = "MintA"
    /\ log[1].price = MaxPrice /\ log[2].price = 1
    /\ log[1].index = 3 /\ log[2].index = 3

\* Event ev describes a write of the PriceData at handle pd as st holds it:
\* it names the identity stored in that record, the record holds the
\* event's price and timestamp in the slot of the event's index, and the
\* decimals are those of the AssetConfig of that identity.
Describes(ev, st, pd) ==
    /\ ev.mint = st.price_data[pd.mint].mint
    /\ SlotOf(st.price_data[pd.mint], ev.index) = << ev.price, ev.client_ts_ms >>
    /\ ev.decimals = st.asset_config[st.price_data[pd.mint].mint].decimals

\* The event of a successful set_price on the records cfg and pd describes
\* the write to pd and carries the arguments.
SetPriceEventDescribes(cfg, pd, index, price, client_ts_ms) ==
    LET r == set_price(Accounts, cfg, pd, UpdaterOf(index), index, price,
                       client_ts_ms, 0)
    IN  r.err = "Ok" =>
          /\ r.ev[1].index = index /\ r.ev[1].price = price
          /\ r.ev[1].client_ts_ms = client_ts_ms
          /\ Describes(r.ev[1], r.st, pd)

\* The events of a successful batch describe its writes: each names the
\* record at the update's PriceData handle with that asset's decimals, and
\* the last event of each record gives the slot that record is left with.
BatchEventsDescribe(updates, remaining_accounts, index, client_ts_ms) ==
    LET r == batch_set_prices(Accounts, UpdaterOf(index), index, updates,
                              remaining_accounts, client_ts_ms, 0)
    IN  r.err = "Ok" =>
          \A k \in 1 .. Len(updates) :
            LET pd == remaining_accounts[2 * k]
                ev == r.ev[k]
            IN  /\ ev.index = index /\ ev.client_ts_ms = client_ts_ms
                /\ ev.mint = r.st.price_data[pd.mint].mint
                /\ ev.decimals = asset_config[ev.mint].decimals
                /\ (\A j \in k + 1 .. Len(updates) :
                        remaining_accounts[2 * j].mint # pd.mint)
                     => Describes(ev, r.st, pd)

\* The part that holds: the events of batchSetPrices, and those of setPrice
\* on the two records of one asset.
OwnEventsDescribe ==
    AtRest =>
    /\ \A updates \in ShortBatches :
         \A remaining_accounts \in PairedHandleLists(updates) :
           BatchEventsDescribe(updates, remaining_accounts, 2, MaxTs)
    /\ \A m \in Mints, index \in 1 .. 4, price \in Prices :
         SetPriceEventDescribes(CfgHandle(m), PdHandle(m), index, price, MaxTs)

(***************************************************************************)
(* C24.  Every notification emitted by setPrice or batchSetPrices          *)
(* describes the write that was applied: its assetIdentity equals the      *)
(* identity stored in the PriceData record that was mutated, its           *)
(* sourceIndex, price and clientTimestampMs equal the slot index and the   *)
(* values written to that record, and its decimals equal the decimals of   *)
(* that same asset's AssetConfig.                                          *)
(***************************************************************************)
C24_EventDescribesWrite ==
    AtRest =>
    /\ \A updates \in ShortBatches :
         \A remaining_accounts \in PairedHandleLists(updates) :
           BatchEventsDescribe(updates, remaining_accounts, 2, MaxTs)
    /\ \A cfg \in Handles, pd \in Handles :
         \A index \in 1 .. 4, price \in Prices :
           SetPriceEventDescribes(cfg, pd, index, price, MaxTs)

\* set_price with the AssetConfig of MintA and the PriceData of MintB writes
\* the record of MintB and emits an event that names MintA with the
\* decimals of MintA.
EventNamesOtherAsset ==
    (AtRest /\ Active("MintA") /\ Registered("MintB")) =>
    LET r == set_price(Accounts, CfgHandle("MintA"), PdHandle("MintB"),
                       PARAM1_UPDATER, 1, MaxPrice, MaxTs, 0)
    IN  /\ r.err = "Ok"
        /\ r.st.price_data["MintA"] = price_data["MintA"]
        /\ SlotOf(r.st.price_data["MintB"], 1) = << MaxPrice, MaxTs >>
        /\ r.ev[1].mint = "MintA"
        /\ r.ev[1].decimals = asset_config["MintA"].decimals

\* last_update is the timestamp of a slot that was written, or 0 on a
\* record that no source has written.
LastUpdateOfSlot(pd) ==
    IF \A i \in 1 .. 4 : SlotOf(pd, i)[1] = 0 THEN pd.last_update = 0
    ELSE \E i \in 1 .. 4 : SlotOf(pd, i)[1] # 0 /\ pd.last_update = SlotOf(pd, i)[2]

\* The writes to an active asset leave their timestamp in last_update of
\* the record written and the other records alone, whatever timestamps the
\* record holds; the instructions of the administrator leave every
\* PriceData alone, but for the one a registration creates, at 0.
LastUpdateWritten ==
    /\ \A m \in Mints, i \in 1 .. 4, client_ts_ms \in Timestamps :
         LET r == SetPriceOn(m, UpdaterOf(i), i, MaxPrice, client_ts_ms, 0)
             b == BatchOfOne(Accounts, m, i, 1, client_ts_ms)
             again == set_price(r.st, CfgHandle(m), PdHandle(m), UpdaterOf(i), i, 1,
                                MaxTs - client_ts_ms, 0)
         IN  Active(m) =>
             /\ r.err = "Ok" /\ b.err = "Ok" /\ again.err = "Ok"
             /\ r.st.price_data[m].last_update = client_ts_ms
             /\ b.st.price_data[m].last_update = client_ts_ms
             /\ again.st.price_data[m].last_update = MaxTs - client_ts_ms
             /\ \A o \in Mints \ {m} :
                  /\ r.st.price_data[o] = price_data[o]
                  /\ b.st.price_data[o] = price_data[o]
    /\ \A signer \in Keys, cfg \in Handles :
         /\ initialize_registry(Accounts, signer).st.price_data = price_data
         /\ deactivate_asset(Accounts, signer, cfg).st.price_data = price_data
         /\ activate_asset(Accounts, signer, cfg).st.price_data = price_data
    /\ \A signer \in Keys, a \in RegisterArgs :
         LET r == register_asset(Accounts, signer, a.mint, a.symbol, a.decimals,
                                 a.pyth_feed_id)
         IN  \A m \in Mints :
               IF r.err = "Ok" /\ m = a.mint
               THEN /\ ~Registered(m)
                    /\ r.st.price_data[m].last_update = 0
                    /\ r.st.price_data[m].prices = TripletDefault
               ELSE r.st.price_data[m] = price_data[m]

\* A step changes a PriceData that exists only by a successful write,
\* which leaves in last_update the timestamp of an event it emitted, the
\* timestamp of the slot it wrote.
LastUpdateStep ==
    \A m \in Mints :
      (Registered(m) /\ price_data'[m] # price_data[m]) =>
        /\ last'.err = "Ok" /\ last'.op \in {"set_price", "batch_set_prices"}
        /\ Len(log') > Len(log)
        /\ \E k \in Len(log) + 1 .. Len(log') :
             /\ price_data'[m].last_update = log'[k].client_ts_ms
             /\ SlotOf(price_data'[m], log'[k].index)
                  = << log'[k].price, log'[k].client_ts_ms >>

(***************************************************************************)
(* C25.  In every reachable state and for every registered asset,          *)
(* lastUpdate is the clientTimestampMs of the most recent successful       *)
(* setPrice / batchSetPrices write to that asset by any source (0 if there *)
(* has been none), and so the timestamp_i of the slot written last; no     *)
(* other operation writes it.                                              *)
(***************************************************************************)
C25_LastUpdateIsLastWrite ==
    /\ [](\A m \in Mints : Registered(m) => LastUpdateOfSlot(price_data[m]))
    /\ [](AtRest => LastUpdateWritten)
    /\ [][LastUpdateStep]_vars

\* Source 1 has just written MintA at timestamp 0, after source 2 had
\* written it at MaxTs: lastUpdate is 0, below the timestamp of slot 2.
C25_Witness ==
    /\ last = [op |-> "set_price", err |-> "Ok"]
    /\ Len(log) = 1 /\ log[1].mint = "MintA" /\ log[1].index = 1
    /\ log[1].client_ts_ms = 0 /\ MaxTs > 0
    /\ SlotOf(price_data["MintA"], 2) = << MaxPrice, MaxTs >>
    /\ SlotOf(price_data["MintA"], 1)[2] = 0
    /\ price_data["MintA"].last_update = 0

\* The prices of a registered asset are never negative, and a slot that
\* holds a timestamp holds a price.
PricesStored ==
    \A m \in Mints, i \in 1 .. 4 :
      price_data[m].exists =>
        /\ SlotOf(price_data[m], i)[1] >= 0
        /\ SlotOf(price_data[m], i)[2] # 0 => SlotOf(price_data[m], i)[1] > 0

\* No write stores a price <= 0: at such a price set_price and a batch
\* fail and change nothing, on any records and for any signer; a write by
\* source i that succeeds leaves a positive price in slot i; registration
\* creates the four slots at zero.
OnlyPositiveStored ==
    /\ \A cfg \in Handles, pd \in Handles, index \in 1 .. 4, price \in Prices :
         LET r == set_price(Accounts, cfg, pd, UpdaterOf(index), index, price, 0, 0)
         IN  /\ price <= 0 => RejectedSomehow(r)
             /\ r.err = "Ok" => SlotOf(r.st.price_data[pd.mint], index)[1] > 0
    /\ \A updates \in ShortBatches :
         LET r == batch_set_prices(Accounts, PARAM3_UPDATER, 3, updates,
                                   OwnHandles(updates), 0, 0)
         IN  /\ (\E k \in 1 .. Len(updates) : updates[k].price <= 0)
                  => RejectedSomehow(r)
             /\ r.err = "Ok" =>
                  \A k \in 1 .. Len(updates) :
                    SlotOf(r.st.price_data[updates[k].mint], 3)[1] > 0
    /\ \A a \in RegisterArgs :
         LET r == register_asset(Accounts, registry.authority, a.mint, a.symbol,
                                 a.decimals, a.pyth_feed_id)
         IN  r.err = "Ok" => r.st.price_data[a.mint].prices = TripletDefault

\* A step changes slot i of a PriceData that exists only by a successful
\* write of source i, which leaves a positive price there; a positive price
\* stays positive; a PriceData is created with every slot at zero.
PriceStep ==
    \A m \in Mints, i \in 1 .. 4 :
      /\ (~price_data[m].exists /\ price_data'[m].exists) =>
           SlotOf(price_data'[m], i) = << 0, 0 >>
      /\ SlotOf(price_data[m], i)[1] > 0 => SlotOf(price_data'[m], i)[1] > 0
      /\ (price_data[m].exists /\ SlotOf(price_data'[m], i) # SlotOf(price_data[m], i)) =>
           /\ last'.err = "Ok" /\ last'.op \in {"set_price", "batch_set_prices"}
           /\ SlotOf(price_data'[m], i)[1] > 0
           /\ \E k \in Len(log) + 1 .. Len(log') :
                /\ log'[k].index = i
                /\ SlotOf(price_data'[m], i) = << log'[k].price, log'[k].client_ts_ms >>

(***************************************************************************)
(* C26.  In every reachable state and for every registered asset and slot  *)
(* i in 1..4, price_i >= 0, and price_i = 0 if and only if source i has    *)
(* never successfully written that asset: registration leaves the slots at *)
(* zero, a write stores a positive price only, no other operation changes  *)
(* a slot; so timestamp_i # 0 implies price_i > 0.                         *)
(***************************************************************************)
C26_PriceZeroIffUnwritten ==
    /\ []PricesStored
    /\ [](AtRest => OnlyPositiveStored)
    /\ [][PriceStep]_vars

\* Source 1 has just written MintA at timestamp 0: slot 1 holds a price and
\* the timestamp 0, and the slots no source has written hold the price 0.
C26_Witness ==
    /\ last = [op |-> "set_price", err |-> "Ok"]
    /\ Len(log) = 1 /\ log[1].index = 1 /\ log[1].client_ts_ms = 0
    /\ SlotOf(price_data["MintA"], 1) = << 1, 0 >>
    /\ \A i \in 2 .. 4 : SlotOf(price_data["MintA"], i) = << 0, 0 >>
    /\ price_data["MintB"].exists
    /\ \A i \in 1 .. 4 : SlotOf(price_data["MintB"], i) = << 0, 0 >>
====
